---- MODULE Spec2Model ----
(***************************************************************************)
(* Model of the repository-maintenance CLI (scripts/repomaintain):         *)
(* the update, upgrade and publish workflows with their backup / cleanup   *)
(* handlers, the top-level command wrapper, the dependency rewriter of     *)
(* update_version / prepare_components, and the two semantic-version range *)
(* evaluators (semantic_version.NpmSpec as used by cmd_publish/cmd_update, *)
(* and the hand-written evaluator of cmd_check_peers).                     *)
(*                                                                         *)
(* Strings that the code parses (dependency requirements) are sequences of *)
(* one-character strings; versions are triples <<major, minor, patch>>.    *)
(* Component and package names are natural numbers: 1..NLerna are the      *)
(* components returned by the workspace tool in that order, Root is the    *)
(* synthetic "root" component and ExtDep is an external package.           *)
(***************************************************************************)
EXTENDS Integers, Sequences, FiniteSets, TLC

\* ------------------------------------------------------------------ bounds
\* Number of components returned by `lerna list`.
NLerna == 2
\* Largest major/minor/patch number of a version present before a run.
MaxPart == 1

\* ------------------------------------------------------- characters, numbers
DigitChars == <<"0", "1", "2", "3", "4", "5", "6", "7", "8", "9">>
DigitSet == {DigitChars[k] : k \in 1..Len(DigitChars)}
IsDigit(c) == c \in DigitSet
DigitVal(c) == (CHOOSE k \in 1..Len(DigitChars) : DigitChars[k] = c) - 1

RECURSIVE NatToChars(_)
NatToChars(n) ==
    IF n < Len(DigitChars) THEN <<DigitChars[n + 1]>>
    ELSE NatToChars(n \div Len(DigitChars)) \o <<DigitChars[(n % Len(DigitChars)) + 1]>>

RECURSIVE CharsToNat(_)
CharsToNat(s) ==
    IF s = <<>> THEN 0
    ELSE CharsToNat(SubSeq(s, 1, Len(s) - 1)) * Len(DigitChars) + DigitVal(s[Len(s)])

AllDigits(s) == s # <<>> /\ \A k \in 1..Len(s) : IsDigit(s[k])

\* str(Version): "major.minor.patch"
FormatVersion(v) ==
    NatToChars(v[1]) \o <<".">> \o NatToChars(v[2]) \o <<".">> \o NatToChars(v[3])

\* python str.split(sep) for a non-empty separator
RECURSIVE Split(_, _)
Split(s, sep) ==
    LET n == Len(sep)
        hits == {k \in 1..(Len(s) - n + 1) : SubSeq(s, k, k + n - 1) = sep}
    IN IF hits = {} THEN <<s>>
       ELSE LET k == CHOOSE h \in hits : \A g \in hits : h <= g
            IN <<SubSeq(s, 1, k - 1)>> \o Split(SubSeq(s, k + n, Len(s)), sep)

\* python str.strip() / str.split() with respect to the blank character
RECURSIVE Strip(_)
Strip(s) ==
    IF s = <<>> THEN s
    ELSE IF s[1] = " " THEN Strip(Tail(s))
    ELSE IF s[Len(s)] = " " THEN Strip(SubSeq(s, 1, Len(s) - 1))
    ELSE s

RECURSIVE DropEmpty(_)
DropEmpty(ss) ==
    IF ss = <<>> THEN <<>>
    ELSE IF Head(ss) = <<>> THEN DropEmpty(Tail(ss))
    ELSE <<Head(ss)>> \o DropEmpty(Tail(ss))

SplitBlank(s) == DropEmpty(Split(s, <<" ">>))

StartsWith(s, p) == Len(s) >= Len(p) /\ SubSeq(s, 1, Len(p)) = p

\* length of the leading run of characters of s that lie in the set cs
RECURSIVE RunLen(_, _)
RunLen(s, cs) ==
    IF s = <<>> \/ s[1] \notin cs THEN 0 ELSE 1 + RunLen(Tail(s), cs)

\* ------------------------------------------------------------------ versions
VersionLess(a, b) ==
    \/ a[1] < b[1]
    \/ a[1] = b[1] /\ a[2] < b[2]
    \/ a[1] = b[1] /\ a[2] = b[2] /\ a[3] < b[3]

\* Version.compare: -1, 0, 1
Compare(a, b) == IF VersionLess(a, b) THEN -1 ELSE IF a = b THEN 0 ELSE 1

next_major(v) == <<v[1] + 1, 0, 0>>
next_minor(v) == <<v[1], v[2] + 1, 0>>
next_patch(v) == <<v[1], v[2], v[3] + 1>>

\* ------------------------------------------------ semantic_version.NpmSpec
\* The range evaluator that cmd_publish.update_version and
\* cmd_update.prepare_components call: `semver.Version(v) in semver.NpmSpec(r)`.
\* Pre-release and build suffixes are outside the modelled alphabet.
Wildcards == {"x", "X", "*"}

\* NUMBER of the block grammar: x | X | * | 0 | [1-9][0-9]*
IsNpmNumber(s) ==
    \/ Len(s) = 1 /\ s[1] \in Wildcards
    \/ AllDigits(s) /\ (Len(s) = 1 \/ s[1] # "0")

\* the operator of a block: <= >= < > = ^ ~ or empty
NpmOp(b) ==
    IF StartsWith(b, <<"<", "=">>) THEN "<="
    ELSE IF StartsWith(b, <<">", "=">>) THEN ">="
    ELSE IF b # <<>> /\ b[1] \in {"<", ">", "=", "^", "~"} THEN b[1]
    ELSE ""

NpmOpLen(op) == IF op \in {"<=", ">="} THEN 2 ELSE IF op = "" THEN 0 ELSE 1

\* A block "[v]<op><major>[.<minor>[.<patch>]]": whether it matches the grammar,
\* its operator, how many leading components are numbers (a wildcard or a
\* missing component ends the count), and the target version padded with 0.
ParseNpmBlock(block) ==
    LET b == IF block # <<>> /\ block[1] = "v" THEN Tail(block) ELSE block
        op == NpmOp(b)
        rest == SubSeq(b, NpmOpLen(op) + 1, Len(b))
        parts == Split(rest, <<".">>)
        ok == Len(parts) \in 1..3 /\ \A k \in 1..Len(parts) : IsNpmNumber(parts[k])
        isNum(k) == k <= Len(parts) /\ AllDigits(parts[k])
        n == IF ~ok \/ ~isNum(1) THEN 0
             ELSE IF ~isNum(2) THEN 1
             ELSE IF ~isNum(3) THEN 2 ELSE 3
        num(k) == IF k <= n THEN CharsToNat(parts[k]) ELSE 0
    IN [ok |-> ok /\ (n > 0 \/ op \in {"", "=", ">="}),
        op |-> IF op = "" THEN "=" ELSE op,
        n |-> n,
        target |-> <<num(1), num(2), num(3)>>]

\* parse_simple: the clauses of a parsed block p, evaluated against version v
NpmClausesMatch(v, p, t) ==
    CASE p.n = 0 -> TRUE
      [] p.op = "^" ->
           /\ ~VersionLess(v, t)
           /\ VersionLess(v, IF t[1] # 0 THEN next_major(t)
                             ELSE IF t[2] # 0 THEN next_minor(t)
                             ELSE IF p.n = 1 THEN next_major(t)
                             ELSE IF p.n = 2 THEN next_minor(t)
                             ELSE next_patch(t))
      [] p.op = "~" ->
           ~VersionLess(v, t) /\ VersionLess(v, IF p.n = 1 THEN next_major(t) ELSE next_minor(t))
      [] p.op = "=" ->
           IF p.n = 1 THEN ~VersionLess(v, t) /\ VersionLess(v, next_major(t))
           ELSE IF p.n = 2 THEN ~VersionLess(v, t) /\ VersionLess(v, next_minor(t))
           ELSE v = t
      [] p.op = ">" ->
           IF p.n = 1 THEN ~VersionLess(v, next_major(t))
           ELSE IF p.n = 2 THEN ~VersionLess(v, next_minor(t))
           ELSE VersionLess(t, v)
      [] p.op = ">=" -> ~VersionLess(v, t)
      [] p.op = "<" -> VersionLess(v, t)
      [] p.op = "<=" ->
           IF p.n = 1 THEN VersionLess(v, next_major(t))
           ELSE IF p.n = 2 THEN VersionLess(v, next_minor(t))
           ELSE ~VersionLess(t, v)

\* parse_simple for one block of the requirement
NpmBlockMatch(v, block) == NpmClausesMatch(v, ParseNpmBlock(block), ParseNpmBlock(block).target)

\* Parser.parse: split on "||", strip each group (an empty group is ">=0.0.0"),
\* split the group on single blanks into blocks
NpmGroups(req) ==
    LET gs == Split(req, <<"|", "|">>)
    IN [k \in 1..Len(gs) |->
          IF Strip(gs[k]) = <<>> THEN << <<">", "=", "0", ".", "0", ".", "0">> >>
          ELSE Split(Strip(gs[k]), <<" ">>)]

\* NpmSpec(req) does not raise ValueError
NpmSpecValid(req) ==
    LET groups == NpmGroups(req)
    IN \A g \in DOMAIN groups : \A k \in DOMAIN groups[g] : ParseNpmBlock(groups[g][k]).ok

\* semver.Version(v) in semver.NpmSpec(req), for a valid req
NpmSpecMatch(v, req) ==
    LET groups == NpmGroups(req)
    IN \E g \in DOMAIN groups : \A k \in DOMAIN groups[g] : NpmBlockMatch(v, groups[g][k])

\* -------------------------------------------- cmd_check_peers range evaluator
PrefixChars == {"~", "^", ">", "=", "<"}

\* _extract_version_from_string: <<>> for None, <<version>> otherwise
RECURSIVE VersionRunLen(_)
VersionRunLen(s) ==
    \* length of the match of \d+(?:\.\d+)* at the start of s (s starts with a digit)
    LET d == RunLen(s, DigitSet)
    IN IF d < Len(s) /\ s[d + 1] = "." /\ d + 1 < Len(s) /\ IsDigit(s[d + 2])
       THEN d + 1 + VersionRunLen(SubSeq(s, d + 2, Len(s)))
       ELSE d

\* the extraction with a missing component filled with 1 instead of 0
_extract_version_from_string_unpadded(version_str) ==
    LET stripped == Strip(version_str)
        clean == SubSeq(stripped, RunLen(stripped, PrefixChars) + 1, Len(stripped))
        starts == {k \in 1..Len(clean) : IsDigit(clean[k])}
    IN IF starts = {} THEN <<>>
       ELSE LET k == CHOOSE h \in starts : \A g \in starts : h <= g
                tail == SubSeq(clean, k, Len(clean))
                parts == Split(SubSeq(tail, 1, VersionRunLen(tail)), <<".">>)
                part(j) == IF j <= Len(parts) THEN parts[j] ELSE <<"1">>
                \* semver.Version.parse rejects a numeric part with a leading zero
                wellFormed == \A j \in 1..3 : Len(part(j)) = 1 \/ part(j)[1] # "0"
            IN IF wellFormed
               THEN << <<CharsToNat(part(1)), CharsToNat(part(2)), CharsToNat(part(3))>> >>
               ELSE <<>>

_extract_version_from_string(version_str) ==
    LET stripped == Strip(version_str)
        clean == SubSeq(stripped, RunLen(stripped, PrefixChars) + 1, Len(stripped))
        starts == {k \in 1..Len(clean) : IsDigit(clean[k])}
    IN IF starts = {} THEN <<>>
       ELSE LET k == CHOOSE h \in starts : \A g \in starts : h <= g
                tail == SubSeq(clean, k, Len(clean))
                parts == Split(SubSeq(tail, 1, VersionRunLen(tail)), <<".">>)
                part(j) == IF j <= Len(parts) THEN parts[j] ELSE <<"0">>
                \* semver.Version.parse rejects a numeric part with a leading zero
                wellFormed == \A j \in 1..3 : Len(part(j)) = 1 \/ part(j)[1] # "0"
            IN IF wellFormed
               THEN << <<CharsToNat(part(1)), CharsToNat(part(2)), CharsToNat(part(3))>> >>
               ELSE <<>>

\* the caret range with its upper bound included
_satisfies_caret_range_inclusive(version, requirement) ==
    LET required_version == _extract_version_from_string(requirement)
    IN IF required_version = <<>> THEN TRUE
       ELSE IF Compare(version, required_version[1]) < 0 THEN FALSE
       ELSE Compare(version, <<required_version[1][1] + 1, 0, 0>>) <= 0

_satisfies_caret_range(version, requirement) ==
    LET required_version == _extract_version_from_string(requirement)
    IN IF required_version = <<>> THEN TRUE
       ELSE IF Compare(version, required_version[1]) < 0 THEN FALSE
       ELSE Compare(version, <<required_version[1][1] + 1, 0, 0>>) < 0

\* the tilde range bounded by the next major version
_satisfies_tilde_range_major(version, requirement) ==
    LET required_version == _extract_version_from_string(requirement)
    IN IF required_version = <<>> THEN TRUE
       ELSE IF Compare(version, required_version[1]) < 0 THEN FALSE
       ELSE Compare(version, <<required_version[1][1] + 1, 0, 0>>) < 0

_satisfies_tilde_range(version, requirement) ==
    LET required_version == _extract_version_from_string(requirement)
    IN IF required_version = <<>> THEN TRUE
       ELSE IF Compare(version, required_version[1]) < 0 THEN FALSE
       ELSE Compare(version, <<required_version[1][1], required_version[1][2] + 1, 0>>) < 0

\* the single-term evaluator without its wildcard case: `*` is an exact match
\* against a version that cannot be extracted
_version_satisfies_single_requirement_nowildcard(version, req) ==
    LET requirement == Strip(req)
    IN IF StartsWith(requirement, <<"^">>) THEN _satisfies_caret_range(version, Tail(requirement))
       ELSE IF StartsWith(requirement, <<"~">>) THEN _satisfies_tilde_range(version, Tail(requirement))
       ELSE LET required_version == _extract_version_from_string(requirement)
            IN required_version # <<>> /\ Compare(version, required_version[1]) = 0

_version_satisfies_single_requirement(version, req) ==
    LET requirement == Strip(req)
        cmp(skip) == _extract_version_from_string(SubSeq(requirement, skip + 1, Len(requirement)))
    IN IF requirement = <<"*">> THEN TRUE
       ELSE IF StartsWith(requirement, <<"^">>) THEN _satisfies_caret_range(version, Tail(requirement))
       ELSE IF StartsWith(requirement, <<"~">>) THEN _satisfies_tilde_range(version, Tail(requirement))
       ELSE IF StartsWith(requirement, <<">", "=">>)
            THEN cmp(2) # <<>> /\ Compare(version, cmp(2)[1]) >= 0
       ELSE IF StartsWith(requirement, <<"<", "=">>)
            THEN cmp(2) # <<>> /\ Compare(version, cmp(2)[1]) <= 0
       ELSE IF StartsWith(requirement, <<">">>)
            THEN cmp(1) # <<>> /\ Compare(version, cmp(1)[1]) > 0
       ELSE IF StartsWith(requirement, <<"<">>)
            THEN cmp(1) # <<>> /\ Compare(version, cmp(1)[1]) < 0
       ELSE IF StartsWith(requirement, <<"=">>)
            THEN cmp(1) # <<>> /\ Compare(version, cmp(1)[1]) = 0
       ELSE cmp(0) # <<>> /\ Compare(version, cmp(0)[1]) = 0

_version_satisfies_requirement(version, requirement) ==
    LET or_conditions == Split(requirement, <<"|", "|">>)
        and_conditions == SplitBlank(requirement)
    IN IF Len(or_conditions) > 1
       THEN \E k \in 1..Len(or_conditions) :
                _version_satisfies_single_requirement(version, Strip(or_conditions[k]))
       ELSE IF Len(and_conditions) > 1
       THEN \A k \in 1..Len(and_conditions) :
                _version_satisfies_single_requirement(version, and_conditions[k])
       ELSE _version_satisfies_single_requirement(version, Strip(requirement))

\* ---------------------------------------------------------------- state
VARIABLES
    cmd,            \* the command: "update", "upgrade" or "publish"
    opts,           \* command-line flags: no_git, dry_run, skip_existing, always_ask
    dirty,          \* repo.is_dirty() when the command starts
    pc,             \* position of the command function / of cmd_wrapper
    i,              \* index of the component the current loop is at
    hctx,           \* where cmd_wrapper is: "body", "try" (handler called in the try body), "except"
    cb,             \* index of the app_on_error callback that handler is running
    app_on_error,   \* utils.app_on_error: registered callbacks, in order
    cb_calls,       \* number of times handler has called a callback of app_on_error
    exit_code,      \* -1 while running, else the process exit code
    fail,           \* how the command function was left first: [pc, kind], kind "none" while it runs
    pkg,            \* package.json of each component (parsed)
    pkg_bak,        \* package.json.bak of each component: <<>> or <<manifest>>
    lock,           \* package-lock.json of each component, "none" when missing
    lock_bak,       \* package-lock.json.bak of each component, "none" when missing
    npmrc,          \* .npmrc of each component's folder: "none", "own", "root" (copy of the root's)
    pkg0,           \* package.json files when the command started
    lock0,          \* package-lock.json files when the command started
    staged,         \* backup_package_files has completed
    cleaned,        \* number of components cleanup_on_success has been started on
    touched,        \* components whose package.json the external tool rewrote
    git,            \* the Git repository: commits and tags created, whether refs were pushed,
                    \* and the answer to the push prompt ("none" when not asked)
    config,         \* the CliConfig of the run: publish_mode ("none" when unset),
                    \* publish_tag_name (<<>> when unset, else <<name>>)
    scope_json,     \* the content of scope.json
    scope_writes,   \* number of times scope.json has been written
    publishable,    \* publish: publishable_components, records [component, new_version]
    registries,     \* publish: names of the selected registries
    forced_updates, \* update_version: per component, dependency name -> <<old range, new range>>
    rewritten,      \* calls of update_version.update_internal_dependency: <<component, name, map>>
    written,        \* components whose package.json update_version has written
    confirm,        \* the forced-update confirmation: "none" (not asked), "yes", "no"
    hooked,         \* components whose pre-publish hook has been run
    published,      \* <<component, registry>> pairs that `npm publish` was run for
    skipped,        \* <<component, registry>> pairs skipped because the version exists
    existing,       \* <<component, registry>> pairs for which `npm view name@version` succeeded
    matching_dep,   \* check-peers: the version of the collected dependency that is checked
    peer_version_requirement, \* check-peers: the requirement a registry returned for it
    satisfied,      \* check-peers: <<>> before the check, else <<result>>
    npm_view,       \* check-peers: what `npm view name@version peerDependencies` does, per pair
    dependencies,   \* check-peers: the collected dependencies, in the order of insertion
    mismatches,     \* check-peers: the list of PeerDependencyMismatch records
    page,           \* sd-global: the rows of the pinned-dependency page: [name, repositories]
    pinned_deps_in_use, \* sd-global: names of the pinned packages that a component uses
    uploads,        \* sd-global: number of calls of confluence.update_page
    runs            \* sd-global: number of runs that have ended

ctl == <<cmd, opts, dirty, pc, i, hctx, cb, fail, app_on_error, cb_calls, exit_code>>
files == <<pkg, pkg_bak, lock, lock_bak, npmrc>>
hist == <<pkg0, lock0, staged, cleaned, touched>>
vcs == <<git>>
sel == <<config, scope_json, scope_writes, publishable, registries>>
uvs == <<forced_updates, rewritten, written, confirm>>
reg == <<hooked, published, skipped, existing>>
pub == <<sel, uvs, reg>>
peers == <<matching_dep, peer_version_requirement, satisfied, npm_view, dependencies, mismatches>>
wiki == <<page, pinned_deps_in_use, uploads, runs>>
vars == <<ctl, files, hist, vcs, pub, peers, wiki>>

\* ---------------------------------------------------------------- components
ExtDep == 0
Root == NLerna + 1
Comps == 1..Root
\* the component of the enumeration that depends on component 1
Dependent == NLerna

EmptyMap == [n \in {} |-> <<>>]
Remove(f, k) == [n \in DOMAIN f \ {k} |-> f[n]]
Put(f, k, v) == [n \in DOMAIN f \cup {k} |-> IF n = k THEN v ELSE f[n]]

\* utils.cmd_helper / cmd_update.run lines 41-51: the components of `lerna list`
\* in the order returned, then the synthetic root (private, version "")
components ==
    [k \in Comps |->
        IF k = Root
        THEN [name |-> Root, version |-> <<>>, private |-> TRUE]
        ELSE [name |-> k, version |-> <<pkg0[k].version>>, private |-> pkg0[k].private]]

\* ---------------------------------------------------------------- inputs
Req(op, v) == op \o FormatVersion(v)
Caret == <<"^">>
Tilde == <<"~">>
Exact == <<>>
Latest == <<"l", "a", "t", "e", "s", "t">>
Star == <<"*">>
GreaterEq == <<">", "=">>
LessEq == <<"<", "=">>
Greater == <<">">>
Less == <<"<">>

InitVersions == {<<a, 0, 0>> : a \in 1..MaxPart} \cup {<<0, b, 0>> : b \in 1..MaxPart}

\* requirements that the dependent component may declare on component 1 (at version v)
SampleReqs(v) ==
    {Req(Caret, v), Req(Tilde, v), Req(Exact, v), Req(Caret, next_major(v)), Star, Latest}

ExtReq0 == Req(Caret, <<1, 0, 0>>)
ExtReq1 == Req(Caret, <<1, 1, 0>>)

OptMap(name, choice) == IF choice = <<>> THEN EmptyMap ELSE (name :> choice[1])

\* the package.json files of a repository: every component declares the external
\* package; the dependent component may declare component 1 in either map
Manifests(v1, vk, dep, dev, priv) ==
    [k \in Comps |->
        [version |-> IF k = 1 THEN v1 ELSE vk,
         private |-> IF k = Root THEN TRUE ELSE k \in priv,
         dependencies |-> IF k = Dependent /\ k # 1
                          THEN (ExtDep :> ExtReq0) @@ OptMap(1, dep)
                          ELSE (ExtDep :> ExtReq0),
         devDependencies |-> IF k = Dependent /\ k # 1 THEN OptMap(1, dev) ELSE EmptyMap]]

Opt(S) == {<<>>} \cup {<<x>> : x \in S}

\* ------------------------------------------------- cmd_update: pure helpers
\* prepare_components.update_internal_dependency: the dependency map after the call
prepare_update_internal_dependency(pkg_json_dep_ref, name, internal_version) ==
    IF ~NpmSpecMatch(internal_version, pkg_json_dep_ref[name])
    THEN pkg_json_dep_ref
    ELSE Remove(pkg_json_dep_ref, name)

\* the requirement that prepare_components / update_version look at for `name`:
\* runtime first, dev only when the name is absent from runtime
WhichMap(m, name) ==
    IF name \in DOMAIN m.dependencies THEN "dependencies"
    ELSE IF name \in DOMAIN m.devDependencies THEN "devDependencies"
    ELSE "none"

\* semver.Version(internal_dependency["version"]) or semver.NpmSpec(range) raises
PrepareRaises(m) ==
    \E name \in Comps :
        /\ WhichMap(m, name) # "none"
        /\ \/ components[name].version = <<>>
           \/ ~NpmSpecValid(m[WhichMap(m, name)][name])

\* prepare_components, lines 199-203, for one package.json
RECURSIVE StripNames(_, _)
StripNames(m, names) ==
    IF names = {} THEN m
    ELSE LET name == CHOOSE n \in names : TRUE
             w == WhichMap(m, name)
             m2 == IF w = "none" THEN m
                   ELSE [m EXCEPT ![w] = prepare_update_internal_dependency(
                                             m[w], name, components[name].version[1])]
         IN StripNames(m2, names \ {name})

\* the updated manifest written back as it is, without the original entries
MergeUpdated_unmerged(original, updated) == updated

\* cleanup_on_success, lines 243-248: the original manifest with every entry of
\* the updated manifest written over it
MergeUpdated(original, updated) ==
    [original EXCEPT
        !.dependencies = [n \in DOMAIN original.dependencies \cup DOMAIN updated.dependencies |->
                              IF n \in DOMAIN updated.dependencies
                              THEN updated.dependencies[n] ELSE original.dependencies[n]],
        !.devDependencies = [n \in DOMAIN original.devDependencies \cup DOMAIN updated.devDependencies |->
                              IF n \in DOMAIN updated.devDependencies
                              THEN updated.devDependencies[n] ELSE original.devDependencies[n]]]

\* `npm update --save` / `ncu --upgrade` on one package.json: the external tool
\* may raise the range of the external package
ToolRewrite(m, bump) ==
    IF bump /\ ExtDep \in DOMAIN m.dependencies
    THEN [m EXCEPT !.dependencies = Put(m.dependencies, ExtDep, ExtReq1)]
    ELSE m

\* ------------------------------------------------------- cli.py: cmd_wrapper
\* handler('err') is entered: from the try body after a False return ("try"),
\* or from one of the except clauses ("except")
\* kinds: "false" (the function returned False), "interrupt" (KeyboardInterrupt),
\* "message" (PrintMessageError), "tool" (RuntimeError of run_process or an
\* error of the Git library), "error" (any other exception), "exit" (SystemExit)
EnterHandler(ctx, kind) ==
    /\ pc' = "handler"
    /\ hctx' = ctx
    /\ cb' = 1
    /\ i' = 1
    /\ fail' = IF fail.kind = "none" THEN [pc |-> pc, kind |-> kind] ELSE fail

\* the loop `for component in components` moves on, or the loop ends at `after`
NextComponent(after) ==
    IF i = Root THEN pc' = after /\ i' = 1 ELSE pc' = pc /\ i' = i + 1

\* the callback loop of handler moves to the next component or callback
NextCallbackStep ==
    /\ pc' = pc
    /\ hctx' = hctx
    /\ fail' = fail
    /\ IF i = Root THEN cb' = cb + 1 /\ i' = 1 ELSE cb' = cb /\ i' = i + 1

\* cmd_wrapper, line 29 with res = True: handler('ok') runs app_on_success (empty)
cmd_wrapper_ok ==
    /\ pc = "return_true"
    /\ pc' = "exit"
    /\ exit_code' = 0
    /\ UNCHANGED <<peers, wiki, cb_calls, cmd, opts, dirty, i, hctx, cb, fail, app_on_error, files, hist, vcs, pub>>

\* handler, line 22: sys.exit(1) after the callbacks. Raised in the try body,
\* SystemExit is caught by the bare `except:` of cmd_wrapper, which calls
\* handler('err') again; raised in an except clause, it ends the process.
handler_exit ==
    /\ pc = "handler"
    /\ cb > Len(app_on_error)
    /\ IF hctx = "try"
       THEN EnterHandler("except", "exit") /\ UNCHANGED exit_code
       ELSE pc' = "exit" /\ exit_code' = 1 /\ UNCHANGED <<i, hctx, cb, fail>>
    /\ UNCHANGED <<peers, wiki, cb_calls, cmd, opts, dirty, app_on_error, files, hist, vcs, pub>>

\* KeyboardInterrupt (SIGINT): caught by cmd_wrapper while the try body runs;
\* inside an except clause it propagates and the interpreter exits with 130
Interrupt ==
    /\ pc # "exit"
    /\ IF hctx \in {"body", "try"}
       THEN EnterHandler("except", "interrupt") /\ UNCHANGED exit_code
       ELSE pc' = "exit" /\ exit_code' = 130 /\ UNCHANGED <<i, hctx, cb, fail>>
    /\ UNCHANGED <<peers, wiki, cb_calls, cmd, opts, dirty, app_on_error, files, hist, vcs, pub>>

\* ------------------------------------------------------------- cmd_update.run
\* the start of run without the check of the working tree
update_run_begin_unchecked ==
    /\ cmd = "update" /\ pc = "start"
    /\ app_on_error' = Append(app_on_error, "update_cleanup_on_error")
    /\ pc' = "backup"
    /\ UNCHANGED <<peers, wiki, cb_calls, cmd, opts, dirty, i, hctx, cb, fail, exit_code, files, hist, vcs, pub>>

\* lines 25-55: dirty check (return False), component discovery, registration
update_run_begin ==
    /\ cmd = "update" /\ pc = "start"
    /\ IF ~opts.no_git /\ dirty
       THEN EnterHandler("try", "false") /\ UNCHANGED app_on_error
       ELSE /\ app_on_error' = Append(app_on_error, "update_cleanup_on_error")
            /\ pc' = "backup"
            /\ UNCHANGED <<i, hctx, cb, fail>>
    /\ UNCHANGED <<peers, wiki, cb_calls, cmd, opts, dirty, exit_code, files, hist, vcs, pub>>

\* backup_package_files, one component: package.json is copied, package-lock.json
\* is copied when it exists
update_backup_package_files ==
    /\ cmd = "update" /\ pc = "backup"
    /\ pkg_bak' = [pkg_bak EXCEPT ![i] = <<pkg[i]>>]
    /\ lock_bak' = [lock_bak EXCEPT ![i] = IF lock[i] # "none" THEN lock[i] ELSE @]
    /\ NextComponent("prepare")
    /\ staged' = (i = Root)
    /\ UNCHANGED <<peers, wiki, cb_calls, cmd, opts, dirty, hctx, cb, fail, app_on_error, exit_code, pkg, lock, npmrc,
                   pkg0, lock0, cleaned, touched, vcs, pub>>

\* prepare_components, one component: read, strip, write; a ValueError of the
\* semver library leaves the file unwritten
update_prepare_components ==
    /\ cmd = "update" /\ pc = "prepare"
    /\ IF PrepareRaises(pkg[i])
       THEN EnterHandler("except", "error") /\ UNCHANGED pkg
       ELSE /\ pkg' = [pkg EXCEPT ![i] = StripNames(pkg[i], Comps)]
            /\ NextComponent("npm")
            /\ UNCHANGED <<hctx, cb, fail>>
    /\ UNCHANGED <<peers, wiki, cb_calls, cmd, opts, dirty, app_on_error, exit_code, pkg_bak, lock, lock_bak, npmrc,
                   hist, vcs, pub>>

\* run, lines 64-110, one component: `npm update --save` (RuntimeError when it
\* fails) rewrites package.json and package-lock.json; when `npm audit fix`
\* fails the user is asked and may stop the run (return False)
update_npm_update ==
    /\ cmd = "update" /\ pc = "npm"
    /\ \E outcome \in {"ok", "update_fails", "declined"}, bump \in BOOLEAN :
        IF outcome = "update_fails"
        THEN bump = FALSE /\ EnterHandler("except", "tool") /\ UNCHANGED <<pkg, lock, touched>>
        ELSE /\ pkg' = [pkg EXCEPT ![i] = ToolRewrite(@, bump)]
             /\ lock' = [lock EXCEPT ![i] = "updated"]
             /\ touched' = IF bump THEN touched \cup {i} ELSE touched
             /\ IF outcome = "declined"
                THEN EnterHandler("try", "false")
                ELSE NextComponent("cleanup_ok") /\ UNCHANGED <<hctx, cb, fail>>
    /\ UNCHANGED <<peers, wiki, cb_calls, cmd, opts, dirty, app_on_error, exit_code, pkg_bak, lock_bak, npmrc,
                   pkg0, lock0, staged, cleaned, vcs, pub>>

\* cleanup_on_success, one component: merge the updated ranges into the backup,
\* write package.json, remove package.json.bak, remove package-lock.json.bak
\* (os.remove raises FileNotFoundError when it does not exist)
update_cleanup_on_success ==
    /\ cmd = "update" /\ pc = "cleanup_ok"
    /\ cleaned' = cleaned + 1
    /\ IF pkg_bak[i] = <<>>
       THEN EnterHandler("except", "error") /\ UNCHANGED <<pkg, pkg_bak, lock_bak>>
       ELSE /\ pkg' = [pkg EXCEPT ![i] = MergeUpdated(pkg_bak[i][1], pkg[i])]
            /\ pkg_bak' = [pkg_bak EXCEPT ![i] = <<>>]
            /\ IF lock_bak[i] = "none"
               THEN EnterHandler("except", "error") /\ UNCHANGED lock_bak
               ELSE /\ lock_bak' = [lock_bak EXCEPT ![i] = "none"]
                    /\ NextComponent("reinstall")
                    /\ UNCHANGED <<hctx, cb, fail>>
    /\ UNCHANGED <<peers, wiki, cb_calls, cmd, opts, dirty, app_on_error, exit_code, lock, npmrc,
                   pkg0, lock0, staged, touched, vcs, pub>>

\* run, lines 115-120: npm i, lerna clean, lerna bootstrap
update_reinstall ==
    /\ cmd = "update" /\ pc = "reinstall"
    /\ \E ok \in BOOLEAN :
        IF ok
        THEN pc' = (IF opts.no_git THEN "return_true" ELSE "commit") /\ UNCHANGED <<i, hctx, cb, fail>>
        ELSE EnterHandler("except", "tool")
    /\ UNCHANGED <<peers, wiki, cb_calls, cmd, opts, dirty, app_on_error, exit_code, files, hist, vcs, pub>>

\* commit_changes: stage the files of every component and commit
update_commit_changes ==
    /\ cmd = "update" /\ pc = "commit"
    /\ \E ok \in BOOLEAN :
        IF ok
        THEN /\ git' = [git EXCEPT !.commits = @ + 1]
             /\ pc' = "return_true"
             /\ UNCHANGED <<i, hctx, cb, fail>>
        ELSE EnterHandler("except", "tool") /\ UNCHANGED git
    /\ UNCHANGED <<peers, wiki, cb_calls, cmd, opts, dirty, app_on_error, exit_code, files, hist, pub>>

\* a restore that removes the backup without copying it back
try_restore_bak_file_drop(file, bak, missing) == file

\* cleanup_on_error.try_restore_bak_file: the content of `file` afterwards
\* (`missing` is the value that stands for "no such file")
try_restore_bak_file(file, bak, missing) ==
    IF bak # missing THEN bak ELSE file

\* cleanup_on_error, one component: try_restore_bak_file for package.json and
\* for package-lock.json
update_cleanup_on_error ==
    /\ pc = "handler" /\ cb <= Len(app_on_error)
    /\ app_on_error[cb] = "update_cleanup_on_error"
    /\ pkg' = [pkg EXCEPT ![i] = try_restore_bak_file(<<@>>, pkg_bak[i], <<>>)[1]]
    /\ pkg_bak' = [pkg_bak EXCEPT ![i] = <<>>]
    /\ lock' = [lock EXCEPT ![i] = try_restore_bak_file(@, lock_bak[i], "none")]
    /\ lock_bak' = [lock_bak EXCEPT ![i] = "none"]
    /\ NextCallbackStep
    /\ cb_calls' = IF i = 1 THEN cb_calls + 1 ELSE cb_calls
    /\ UNCHANGED <<peers, wiki, cmd, opts, dirty, app_on_error, exit_code, npmrc, hist, vcs, pub>>

\* ------------------------------------------------------ cmd_upgrade.run_upgrade
\* lines 26-34: discovery, fetch of the pinned dependencies (PrintMessageError
\* when the document cannot be read), registration
upgrade_run_begin ==
    /\ cmd = "upgrade" /\ pc = "start"
    /\ \E ok \in BOOLEAN :
        IF ok
        THEN /\ app_on_error' = Append(app_on_error, "upgrade_cleanup_on_error")
             /\ pc' = "backup"
             /\ UNCHANGED <<i, hctx, cb, fail>>
        ELSE EnterHandler("except", "message") /\ UNCHANGED app_on_error
    /\ UNCHANGED <<peers, wiki, cb_calls, cmd, opts, dirty, exit_code, files, hist, vcs, pub>>

\* backup_package_files, one component
upgrade_backup_package_files ==
    /\ cmd = "upgrade" /\ pc = "backup"
    /\ pkg_bak' = [pkg_bak EXCEPT ![i] = <<pkg[i]>>]
    /\ NextComponent("link")
    /\ staged' = (i = Root)
    /\ UNCHANGED <<peers, wiki, cb_calls, cmd, opts, dirty, hctx, cb, fail, app_on_error, exit_code, pkg, lock, lock_bak,
                   npmrc, pkg0, lock0, cleaned, touched, vcs, pub>>

\* utils.link_npmrc_file(root, components): the root's .npmrc is copied into
\* every component but root, over what is there; nothing when the root has none
link_npmrc_file(rc, cs) ==
    IF rc[Root] # "none"
    THEN [k \in Comps |-> IF k \in cs /\ k # Root THEN "root" ELSE rc[k]]
    ELSE rc

\* the removal of .npmrc without the test for the root component
unlink_npmrc_file_anywhere(rc, c) == [rc EXCEPT ![c] = "none"]

\* utils.unlink_npmrc_file(component)
unlink_npmrc_file(rc, c) ==
    IF c # Root THEN [rc EXCEPT ![c] = "none"] ELSE rc

upgrade_link_npmrc_file ==
    /\ cmd = "upgrade" /\ pc = "link"
    /\ npmrc' = link_npmrc_file(npmrc, Comps)
    /\ pc' = "ncu"
    /\ UNCHANGED <<peers, wiki, cb_calls, cmd, opts, dirty, i, hctx, cb, fail, app_on_error, exit_code, pkg, pkg_bak,
                   lock, lock_bak, hist, vcs, pub>>

\* run_upgrade, lines 53-55, one component: `npx ncu --upgrade`
upgrade_ncu ==
    /\ cmd = "upgrade" /\ pc = "ncu"
    /\ \E ok \in BOOLEAN, bump \in BOOLEAN :
        IF ok
        THEN /\ pkg' = [pkg EXCEPT ![i] = ToolRewrite(@, bump)]
             /\ touched' = IF bump THEN touched \cup {i} ELSE touched
             /\ NextComponent("cleanup_ok")
             /\ UNCHANGED <<hctx, cb, fail>>
        ELSE bump = FALSE /\ EnterHandler("except", "tool") /\ UNCHANGED <<pkg, touched>>
    /\ UNCHANGED <<peers, wiki, cb_calls, cmd, opts, dirty, app_on_error, exit_code, pkg_bak, lock, lock_bak, npmrc,
                   pkg0, lock0, staged, cleaned, vcs, pub>>

\* cleanup_on_success, one component: remove the backup and the .npmrc
upgrade_cleanup_on_success ==
    /\ cmd = "upgrade" /\ pc = "cleanup_ok"
    /\ pkg_bak' = [pkg_bak EXCEPT ![i] = <<>>]
    /\ npmrc' = unlink_npmrc_file(npmrc, i)
    /\ cleaned' = cleaned + 1
    /\ NextComponent("install")
    /\ UNCHANGED <<peers, wiki, cb_calls, cmd, opts, dirty, hctx, cb, fail, app_on_error, exit_code, pkg, lock, lock_bak,
                   pkg0, lock0, staged, touched, vcs, pub>>

\* run_upgrade, lines 60-79: `pnpm install`, then return True
upgrade_install ==
    /\ cmd = "upgrade" /\ pc = "install"
    /\ \E ok \in BOOLEAN :
        IF ok THEN pc' = "return_true" /\ UNCHANGED <<i, hctx, cb, fail>>
        ELSE EnterHandler("except", "tool")
    /\ UNCHANGED <<peers, wiki, cb_calls, cmd, opts, dirty, app_on_error, exit_code, files, hist, vcs, pub>>

\* utils.move(src, dst) with must_exist = False: the content of dst afterwards
\* (src is copied over dst and removed; nothing happens when src is missing)
move(src, dst) == IF src # <<>> THEN src ELSE dst

\* cleanup_on_error, one component: move the backup over package.json (nothing
\* when there is no backup), remove the .npmrc
upgrade_cleanup_on_error ==
    /\ pc = "handler" /\ cb <= Len(app_on_error)
    /\ app_on_error[cb] = "upgrade_cleanup_on_error"
    /\ pkg' = [pkg EXCEPT ![i] = move(pkg_bak[i], <<@>>)[1]]
    /\ pkg_bak' = [pkg_bak EXCEPT ![i] = <<>>]
    /\ npmrc' = unlink_npmrc_file(npmrc, i)
    /\ NextCallbackStep
    /\ cb_calls' = IF i = 1 THEN cb_calls + 1 ELSE cb_calls
    /\ UNCHANGED <<peers, wiki, cmd, opts, dirty, app_on_error, exit_code, lock, lock_bak, hist, vcs, pub>>

\* ------------------------------------------- cmd_publish: update_version
Range(f) == {f[k] : k \in DOMAIN f}

\* the choices of ask_for_new_version that the model takes (lines 206-208)
Bumps == {"minor", "major"}
ask_for_new_version(old_version, choice) ==
    IF choice = "patch" THEN next_patch(old_version)
    ELSE IF choice = "minor" THEN next_minor(old_version)
    ELSE next_major(old_version)

\* update_version, lines 506-508: component name -> new version
publishable_component_map(cs) ==
    [n \in {cs[k].component : k \in DOMAIN cs} |->
        (CHOOSE c \in Range(cs) : c.component = n).new_version]

\* line 511 / 534: the match of ^[^ \d]* at the start of the requirement
RECURSIVE SpecifierLen(_)
SpecifierLen(s) ==
    IF s = <<>> \/ s[1] = " " \/ IsDigit(s[1]) THEN 0 ELSE 1 + SpecifierLen(Tail(s))

semver_specifier(requirement) == SubSeq(requirement, 1, SpecifierLen(requirement))

\* a rewrite that does not keep the prefix of the old requirement
update_internal_dependency_bare(pkg_json_dep_ref, name, version) ==
    Put(pkg_json_dep_ref, name, FormatVersion(version))

\* update_version.update_internal_dependency, lines 534-544: the map afterwards
update_internal_dependency(pkg_json_dep_ref, name, version) ==
    Put(pkg_json_dep_ref, name, semver_specifier(pkg_json_dep_ref[name]) \o FormatVersion(version))

\* line 540: the call records a forced update
records_forced_update(pkg_json_dep_ref, name, version) ==
    ~NpmSpecMatch(version, pkg_json_dep_ref[name])

\* a lookup that visits the dev map even when the runtime map holds the name
update_version_maps_both(m, name) ==
    (IF name \in DOMAIN m.dependencies THEN <<"dependencies">> ELSE <<>>)
        \o (IF name \in DOMAIN m.devDependencies THEN <<"devDependencies">> ELSE <<>>)

\* lines 559-562: the maps of package.json that update_internal_dependency is
\* called on for `name` (if / elif)
update_version_maps(m, name) ==
    IF name \in DOMAIN m.dependencies THEN <<"dependencies">>
    ELSE IF name \in DOMAIN m.devDependencies THEN <<"devDependencies">>
    ELSE <<>>

\* the calls of update_internal_dependency for one package.json: <<name, map>>
UvCalls(m, map) ==
    {t \in (DOMAIN map) \X {"dependencies", "devDependencies"} :
        t[2] \in Range(update_version_maps(m, t[1]))}

\* line 540: semver.NpmSpec(current_version) raises ValueError
UvRaises(m, map) == \E t \in UvCalls(m, map) : ~NpmSpecValid(m[t[2]][t[1]])

UvRewriteMap(m, map, w) ==
    [n \in DOMAIN m[w] |->
        IF <<n, w>> \in UvCalls(m, map)
        THEN update_internal_dependency(m[w], n, map[n])[n]
        ELSE m[w][n]]

\* lines 553-562: the package.json content that is written for `component`
UvContent(m, component, map) ==
    [version |-> IF component \in DOMAIN map THEN map[component] ELSE m.version,
     private |-> m.private,
     dependencies |-> UvRewriteMap(m, map, "dependencies"),
     devDependencies |-> UvRewriteMap(m, map, "devDependencies")]

\* line 540: the calls that find the target outside the old range
UvForcedCalls(m, map) ==
    {t \in UvCalls(m, map) : records_forced_update(m[t[2]], t[1], map[t[1]])}

\* the map whose call wrote forced_updates[component][name] last
UvForcedIn(m, map, name) ==
    IF <<name, "devDependencies">> \in UvForcedCalls(m, map)
    THEN "devDependencies" ELSE "dependencies"

\* line 541: the entries added to forced_updates[component]
UvForced(m, map) ==
    [n \in {t[1] : t \in UvForcedCalls(m, map)} |->
        <<m[UvForcedIn(m, map, n)][n],
          update_internal_dependency(m[UvForcedIn(m, map, n)], n, map[n])[n]>>]

\* a confirmation step that never sees a forced update
forced_updates_applied_never(fu) == FALSE

\* lines 569-576
forced_updates_applied(fu) == \E c \in DOMAIN fu : DOMAIN fu[c] # {}

\* ------------------------------------------------------------ cmd_publish.run
\* the elements of a set of component names in the order of the enumeration
RECURSIVE Ascending(_)
Ascending(S) ==
    IF S = {} THEN <<>>
    ELSE LET m == CHOOSE x \in S : \A y \in S : x <= y
         IN <<m>> \o Ascending(S \ {m})

\* ------------------------------------------------------ utils: scope.json
\* A JSON value of the `repomaintain` object: absent key, null, or a string.
\* The content of scope.json: the top-level key `scope`, whether the key
\* `repomaintain` is present, and that object with its keys publish_mode,
\* publish_tag_name and one further key.
ModeAbsent == [kind |-> "absent", value |-> ""]
ModeNull == [kind |-> "null", value |-> ""]
ModeString(m) == [kind |-> "string", value |-> m]
TagAbsent == [kind |-> "absent", value |-> <<>>]
TagNull == [kind |-> "null", value |-> <<>>]
TagString(n) == [kind |-> "string", value |-> n]

\* load_cli_config, lines 58-84
load_cli_config(cli_config_content) ==
    IF ~cli_config_content.has_repomaintain
    THEN [publish_mode |-> "none", publish_tag_name |-> <<>>]
    ELSE [publish_mode |->
              IF /\ cli_config_content.repomaintain.publish_mode.kind = "string"
                 /\ cli_config_content.repomaintain.publish_mode.value \in {"all", "independent"}
              THEN cli_config_content.repomaintain.publish_mode.value
              ELSE "none",
          publish_tag_name |->
              IF cli_config_content.repomaintain.publish_tag_name.kind = "string"
              THEN <<cli_config_content.repomaintain.publish_tag_name.value>>
              ELSE <<>>]

\* lines 101-107: the `repomaintain` object that is updated
stored_repomaintain(cli_config_content) ==
    IF cli_config_content.has_repomaintain
    THEN cli_config_content.repomaintain
    ELSE [publish_mode |-> ModeNull, publish_tag_name |-> TagNull, extra |-> FALSE]

\* lines 110-113: the values that are not None are set
set_values(repomaintain, publish_mode, publish_tag_name) ==
    [repomaintain EXCEPT
        !.publish_mode = IF publish_mode # <<>> THEN ModeString(publish_mode[1]) ELSE @,
        !.publish_tag_name = IF publish_tag_name # <<>> THEN TagString(publish_tag_name[1]) ELSE @]

\* an update that writes a file holding nothing but the values that were set
update_cli_config_fresh(cli_config_content, publish_mode, publish_tag_name) ==
    [scope |-> "",
     has_repomaintain |-> TRUE,
     repomaintain |->
         set_values([publish_mode |-> ModeNull, publish_tag_name |-> TagNull, extra |-> FALSE],
                    publish_mode, publish_tag_name)]

\* update_cli_config, lines 87-121: the content of scope.json afterwards;
\* publish_mode and publish_tag_name are <<>> for None, else <<value>>
update_cli_config(cli_config_content, publish_mode, publish_tag_name) ==
    [cli_config_content EXCEPT
        !.has_repomaintain = TRUE,
        !.repomaintain = set_values(stored_repomaintain(cli_config_content),
                                    publish_mode, publish_tag_name)]

\* a scope.json whose `repomaintain` object holds the values of config
StoredScope(cfg) ==
    [scope |-> "@shapediver",
     has_repomaintain |-> TRUE,
     repomaintain |->
         [publish_mode |-> IF cfg.publish_mode = "none" THEN ModeAbsent
                           ELSE ModeString(cfg.publish_mode),
          publish_tag_name |-> IF cfg.publish_tag_name = <<>> THEN TagAbsent
                               ELSE TagString(cfg.publish_tag_name[1]),
          extra |-> FALSE]]

\* lines 36-47: component discovery, check_open_changes, load_cli_config
\* (the body of run is modelled with the four flags it declares)
publish_run_begin ==
    /\ cmd = "publish" /\ pc = "start"
    /\ IF ~opts.no_git /\ dirty
       THEN EnterHandler("except", "message")
       ELSE pc' = "select" /\ UNCHANGED <<i, hctx, cb, fail>>
    /\ UNCHANGED <<peers, wiki, cb_calls, cmd, opts, dirty, app_on_error, exit_code, files, hist, vcs, pub>>

\* the versions of the public components taken from the first one only
unique_versions_of_first(public_components) ==
    {components[k].version[1] : k \in {c \in public_components : \A d \in public_components : c <= d}}

\* ask_user_for_components_and_version, line 282: the distinct current versions
unique_versions(public_components) == {components[k].version[1] : k \in public_components}

\* every component of `lerna list`, private or not
public_components_lerna == 1..NLerna

\* ask_user_for_components_and_version, line 246: the components, the synthetic
\* root included, that are not marked as private
public_components == {k \in Comps : components[k].private = FALSE}

\* ask_user_for_components_and_version (lines 246-335); the version prompt is
\* answered with one of the offered successors of the current version
publish_ask_user_for_components_and_version ==
    /\ cmd = "publish" /\ pc = "select"
    /\ LET ask == opts.always_ask \/ config.publish_mode = "none"
           res(selected, choice) ==
               [k \in 1..Cardinality(selected) |->
                   LET c == Ascending(selected)[k]
                   IN [component |-> c,
                       new_version |-> ask_for_new_version(components[c].version[1], choice[c])]]
       IN IF public_components = {}
          THEN /\ EnterHandler("except", "message")
               /\ UNCHANGED <<config, scope_json, scope_writes, publishable>>
          ELSE \E answer \in {"all", "independent"} :
                LET publishing_mode == IF ask THEN answer ELSE config.publish_mode
                IN /\ ask \/ answer = "all"
                   /\ config' = [config EXCEPT !.publish_mode = publishing_mode]
                   /\ scope_json' = IF ask
                                    THEN update_cli_config(scope_json, <<publishing_mode>>, <<>>)
                                    ELSE scope_json
                   /\ scope_writes' = IF ask THEN scope_writes + 1 ELSE scope_writes
                   /\ IF publishing_mode = "all"
                      THEN IF Cardinality(unique_versions(public_components)) > 1
                           THEN EnterHandler("except", "message") /\ UNCHANGED publishable
                           ELSE \E choice \in Bumps :
                                  /\ publishable' = res(public_components,
                                                        [c \in public_components |-> choice])
                                  /\ pc' = "registries"
                                  /\ UNCHANGED <<i, hctx, cb, fail>>
                      ELSE \E selection \in SUBSET public_components :
                             IF selection = {}
                             THEN EnterHandler("except", "message") /\ UNCHANGED publishable
                             ELSE \E choice \in [selection -> Bumps] :
                                    /\ publishable' = res(selection, choice)
                                    /\ pc' = "registries"
                                    /\ UNCHANGED <<i, hctx, cb, fail>>
    /\ UNCHANGED <<peers, wiki, cb_calls, cmd, opts, dirty, app_on_error, exit_code, files, hist, vcs,
                   registries, uvs, reg>>

\* ask_user_for_registry (lines 345-398) and the registration of `cleanup` (line 57)
publish_ask_user_for_registry ==
    /\ cmd = "publish" /\ pc = "registries"
    /\ \E github \in BOOLEAN, npm \in BOOLEAN, whoami \in BOOLEAN :
         /\ npm \/ whoami
         /\ IF \/ github /\ npmrc[Root] = "none"
               \/ npm /\ ~whoami
               \/ ~github /\ ~npm
            THEN EnterHandler("except", "message") /\ UNCHANGED <<registries, app_on_error>>
            ELSE /\ registries' = (IF github THEN {"github"} ELSE {})
                                      \cup (IF npm THEN {"npm"} ELSE {})
                 /\ app_on_error' = Append(app_on_error, "publish_cleanup")
                 /\ pc' = "pre_global"
                 /\ UNCHANGED <<i, hctx, cb, fail>>
    /\ UNCHANGED <<peers, wiki, cb_calls, cmd, opts, dirty, exit_code, files, hist, vcs,
                   config, scope_json, scope_writes, publishable, uvs, reg>>

\* line 64: `npm run pre-publish-global`
publish_pre_publish_global ==
    /\ cmd = "publish" /\ pc = "pre_global"
    /\ \E ok \in BOOLEAN :
        IF ok THEN pc' = "update_version" /\ UNCHANGED <<i, hctx, cb, fail>>
        ELSE EnterHandler("except", "tool")
    /\ UNCHANGED <<peers, wiki, cb_calls, cmd, opts, dirty, app_on_error, exit_code, files, hist, vcs, pub>>

\* update_version, lines 546-566, one component: read package.json, set the
\* version, rewrite the internal dependencies, write the file
publish_update_version ==
    /\ cmd = "publish" /\ pc = "update_version"
    /\ LET map == publishable_component_map(publishable)
       IN IF UvRaises(pkg[i], map)
          THEN /\ EnterHandler("except", "error")
               /\ UNCHANGED <<pkg, forced_updates, rewritten, written>>
          ELSE /\ pkg' = [pkg EXCEPT ![i] = UvContent(@, i, map)]
               /\ forced_updates' = [forced_updates EXCEPT ![i] = UvForced(pkg[i], map)]
               /\ rewritten' = rewritten \cup {<<i, t[1], t[2]>> : t \in UvCalls(pkg[i], map)}
               /\ written' = written \cup {i}
               /\ NextComponent("confirm")
               /\ UNCHANGED <<hctx, cb, fail>>
    /\ UNCHANGED <<peers, wiki, cb_calls, cmd, opts, dirty, app_on_error, exit_code, pkg_bak, lock, lock_bak, npmrc,
                   hist, vcs, sel, confirm, reg>>

\* the confirmation with its answer ignored: the run proceeds either way
publish_confirm_forced_updates_ignored ==
    /\ cmd = "publish" /\ pc = "confirm"
    /\ IF forced_updates_applied(forced_updates)
       THEN \E proceed \in BOOLEAN : confirm' = IF proceed THEN "yes" ELSE "no"
       ELSE UNCHANGED confirm
    /\ pc' = "pre_publish"
    /\ UNCHANGED <<peers, wiki, cb_calls, cmd, opts, dirty, i, hctx, cb, fail, app_on_error, exit_code, files, hist,
                   vcs, sel, forced_updates, rewritten, written, reg>>

\* update_version, lines 568-589: the confirmation of forced updates
publish_confirm_forced_updates ==
    /\ cmd = "publish" /\ pc = "confirm"
    /\ IF forced_updates_applied(forced_updates)
       THEN \E proceed \in BOOLEAN :
              /\ confirm' = IF proceed THEN "yes" ELSE "no"
              /\ IF proceed
                 THEN pc' = "pre_publish" /\ UNCHANGED <<i, hctx, cb, fail>>
                 ELSE EnterHandler("except", "message")
       ELSE pc' = "pre_publish" /\ UNCHANGED <<confirm, i, hctx, cb, fail>>
    /\ UNCHANGED <<peers, wiki, cb_calls, cmd, opts, dirty, app_on_error, exit_code, files, hist, vcs,
                   sel, forced_updates, rewritten, written, reg>>

\* line 77: `npm run pre-publish` of the component publishable[i]
publish_pre_publish ==
    /\ cmd = "publish" /\ pc = "pre_publish"
    /\ hooked' = hooked \cup {publishable[i].component}
    /\ \E ok \in BOOLEAN :
        IF ok THEN pc' = "github" /\ UNCHANGED <<i, hctx, cb, fail>>
        ELSE EnterHandler("except", "tool")
    /\ UNCHANGED <<peers, wiki, cb_calls, cmd, opts, dirty, app_on_error, exit_code, files, hist, vcs,
                   sel, uvs, published, skipped, existing>>

\* an existence check that never reports an existing version
package_version_exists_never(view_ok) == FALSE

\* package_version_exists, lines 603-609: True when `npm view name@version`
\* succeeded, False when run_process raised RuntimeError
package_version_exists(view_ok) == view_ok

\* lines 87-107 with package_version_exists (lines 594-609): the GitHub registry
publish_github ==
    /\ cmd = "publish" /\ pc = "github"
    /\ LET c == publishable[i].component
       IN IF "github" \notin registries
          THEN pc' = "publish_npm" /\ UNCHANGED <<npmrc, published, skipped, existing, i, hctx, cb, fail>>
          ELSE \E view_ok \in BOOLEAN, ok \in BOOLEAN :
                 /\ view_ok => ok
                 /\ npmrc' = link_npmrc_file(npmrc, {c})
                 /\ existing' = IF view_ok THEN existing \cup {<<c, "github">>} ELSE existing
                 /\ IF ~package_version_exists(view_ok) /\ ok
                    THEN /\ published' = published \cup {<<c, "github">>}
                         /\ pc' = "publish_npm"
                         /\ UNCHANGED <<skipped, i, hctx, cb, fail>>
                    ELSE IF ~package_version_exists(view_ok)
                    THEN EnterHandler("except", "tool") /\ UNCHANGED <<published, skipped>>
                    ELSE IF opts.skip_existing
                    THEN /\ skipped' = skipped \cup {<<c, "github">>}
                         /\ pc' = "publish_npm"
                         /\ UNCHANGED <<published, i, hctx, cb, fail>>
                    ELSE EnterHandler("except", "message") /\ UNCHANGED <<published, skipped>>
    /\ UNCHANGED <<peers, wiki, cb_calls, cmd, opts, dirty, app_on_error, exit_code, pkg, pkg_bak, lock, lock_bak,
                   hist, vcs, sel, uvs, hooked>>

\* lines 110-129 with package_version_exists: the NPM registry
publish_npm ==
    /\ cmd = "publish" /\ pc = "publish_npm"
    /\ LET c == publishable[i].component
       IN IF "npm" \notin registries
          THEN pc' = "post_publish" /\ UNCHANGED <<npmrc, published, skipped, existing, i, hctx, cb, fail>>
          ELSE \E view_ok \in BOOLEAN, ok \in BOOLEAN :
                 /\ view_ok => ok
                 /\ npmrc' = unlink_npmrc_file(npmrc, c)
                 /\ existing' = IF view_ok THEN existing \cup {<<c, "npm">>} ELSE existing
                 /\ IF ~package_version_exists(view_ok) /\ ok
                    THEN /\ published' = published \cup {<<c, "npm">>}
                         /\ pc' = "post_publish"
                         /\ UNCHANGED <<skipped, i, hctx, cb, fail>>
                    ELSE IF ~package_version_exists(view_ok)
                    THEN EnterHandler("except", "tool") /\ UNCHANGED <<published, skipped>>
                    ELSE IF opts.skip_existing
                    THEN /\ skipped' = skipped \cup {<<c, "npm">>}
                         /\ pc' = "post_publish"
                         /\ UNCHANGED <<published, i, hctx, cb, fail>>
                    ELSE EnterHandler("except", "message") /\ UNCHANGED <<published, skipped>>
    /\ UNCHANGED <<peers, wiki, cb_calls, cmd, opts, dirty, app_on_error, exit_code, pkg, pkg_bak, lock, lock_bak,
                   hist, vcs, sel, uvs, hooked>>

\* the post-publish hook ending the component loop after its first pass
publish_post_publish_once ==
    /\ cmd = "publish" /\ pc = "post_publish"
    /\ pc' = "lock_update" /\ i' = 1
    /\ UNCHANGED <<peers, wiki, cb_calls, cmd, opts, dirty, hctx, cb, fail, app_on_error, exit_code, files,
                   hist, vcs, pub>>

\* line 132: `npm run post-publish`, then the next publishable component
publish_post_publish ==
    /\ cmd = "publish" /\ pc = "post_publish"
    /\ \E ok \in BOOLEAN :
        IF ok
        THEN /\ IF i = Len(publishable)
                THEN pc' = "lock_update" /\ i' = 1
                ELSE pc' = "pre_publish" /\ i' = i + 1
             /\ UNCHANGED <<hctx, cb, fail>>
        ELSE EnterHandler("except", "tool")
    /\ UNCHANGED <<peers, wiki, cb_calls, cmd, opts, dirty, app_on_error, exit_code, files, hist, vcs, pub>>

\* lines 136-140: `npm install --package-json-only` in every component unless
\* dry-run; the command may fail in component n
publish_update_lock_files ==
    /\ cmd = "publish" /\ pc = "lock_update"
    /\ IF opts.dry_run
       THEN pc' = "tag" /\ UNCHANGED <<lock, i, hctx, cb, fail>>
       ELSE \E n \in 1..(Root + 1) :
              /\ lock' = [k \in Comps |-> IF k < n THEN "updated" ELSE lock[k]]
              /\ IF n > Root
                 THEN pc' = "tag" /\ UNCHANGED <<i, hctx, cb, fail>>
                 ELSE EnterHandler("except", "tool")
    /\ UNCHANGED <<peers, wiki, cb_calls, cmd, opts, dirty, app_on_error, exit_code, pkg, pkg_bak, lock_bak, npmrc,
                   hist, vcs, pub>>

\* ask_user_and_prepare_commit_and_tags, lines 424-452
\* the stored tag name is used: not --always-ask, and a non-empty name is stored
uses_stored_tag_name ==
    /\ ~opts.always_ask
    /\ config.publish_tag_name # <<>>
    /\ Len(config.publish_tag_name[1]) > 0

\* line 440: str(answers['tag_name']).strip().replace(' ', '_')
prompted_tag_name(answer) ==
    LET stripped == Strip(answer)
    IN [k \in 1..Len(stripped) |-> IF stripped[k] = " " THEN "_" ELSE stripped[k]]

\* a Git tag name: f"{name}@{version}"
tag_name_of(name, version) == name \o <<"@">> \o FormatVersion(version)

\* the list of tags with one tag per published component in every mode
tag_names_per_component(tag_name) ==
    [k \in DOMAIN publishable |->
        tag_name_of(NatToChars(publishable[k].component), publishable[k].new_version)]

\* the list tag_names for the shared tag name tag_name (mode 'all'), or one
\* tag per published component
tag_names(tag_name) ==
    IF config.publish_mode = "all"
    THEN <<tag_name_of(tag_name, publishable[1].new_version)>>
    ELSE [k \in DOMAIN publishable |->
             tag_name_of(NatToChars(publishable[k].component), publishable[k].new_version)]

\* answers to the prompt "Tag name (non-empty string):"
TagAnswers == {<<>>, <<" ">>, <<"v", " ", "1">>}

\* lines 143-148 with ask_user_and_prepare_commit_and_tags unless --no-git: the
\* tag name is taken from scope.json or prompted until it is non-empty (and
\* then stored in scope.json), one commit is made, then the tags are created
\* in order; index.commit or a create_tag may raise (failing = position)
publish_prepare_commit_and_tags ==
    /\ cmd = "publish" /\ pc = "tag"
    /\ IF opts.no_git
       THEN /\ pc' = "post_global"
            /\ UNCHANGED <<git, config, scope_json, scope_writes, i, hctx, cb, fail>>
       ELSE \E answer \in TagAnswers :
              LET prompted == config.publish_mode = "all" /\ ~uses_stored_tag_name
                  tag_name == IF prompted THEN prompted_tag_name(answer)
                              ELSE IF config.publish_mode = "all" THEN config.publish_tag_name[1]
                              ELSE <<>>
                  names == tag_names(tag_name)
              IN /\ prompted \/ answer = <<>>
                 /\ IF prompted /\ Len(tag_name) = 0
                    THEN UNCHANGED <<git, config, scope_json, scope_writes, pc, i, hctx, cb, fail>>
                    ELSE /\ config' = IF prompted
                                      THEN [config EXCEPT !.publish_tag_name = <<tag_name>>]
                                      ELSE config
                         /\ scope_json' = IF prompted
                                          THEN update_cli_config(scope_json, <<>>, <<tag_name>>)
                                          ELSE scope_json
                         /\ scope_writes' = IF prompted THEN scope_writes + 1 ELSE scope_writes
                         /\ \E failing \in 0..(Len(names) + 1) :
                              /\ git' = IF failing = 0 THEN git
                                        ELSE [git EXCEPT
                                                !.commits = @ + 1,
                                                !.tags = @ \cup {names[k] : k \in 1..Len(names)
                                                                            \cap 1..(failing - 1)}]
                              /\ IF failing > Len(names)
                                 THEN pc' = "post_global" /\ UNCHANGED <<i, hctx, cb, fail>>
                                 ELSE EnterHandler("except", "tool")
    /\ UNCHANGED <<peers, wiki, cb_calls, cmd, opts, dirty, app_on_error, exit_code, files, hist,
                   publishable, registries, uvs, reg>>

\* line 151: `npm run post-publish-global`
publish_post_publish_global ==
    /\ cmd = "publish" /\ pc = "post_global"
    /\ \E ok \in BOOLEAN :
        IF ok THEN pc' = "push" /\ UNCHANGED <<i, hctx, cb, fail>>
        ELSE EnterHandler("except", "tool")
    /\ UNCHANGED <<peers, wiki, cb_calls, cmd, opts, dirty, app_on_error, exit_code, files, hist, vcs, pub>>

\* the push made whatever the answer to the prompt is
publish_push_to_origin_unasked ==
    /\ cmd = "publish" /\ pc = "push"
    /\ IF opts.no_git \/ opts.dry_run
       THEN UNCHANGED git
       ELSE \E proceed \in BOOLEAN :
              git' = [git EXCEPT !.pushed = TRUE,
                                 !.push_prompt = IF proceed THEN "yes" ELSE "no"]
    /\ pc' = "cleanup"
    /\ UNCHANGED <<peers, wiki, cb_calls, cmd, opts, dirty, i, hctx, cb, fail, app_on_error, exit_code, files,
                   hist, pub>>

\* lines 154-157 with ask_user_and_push_to_origin (lines 467-491): nothing is
\* pushed without Git or in dry-run mode; else the user is asked, and the push
\* may fail (raise_if_error)
publish_push_to_origin ==
    /\ cmd = "publish" /\ pc = "push"
    /\ IF opts.no_git \/ opts.dry_run
       THEN pc' = "cleanup" /\ UNCHANGED <<git, i, hctx, cb, fail>>
       ELSE \E proceed \in BOOLEAN, ok \in BOOLEAN :
              /\ proceed \/ ok
              /\ IF ~proceed
                 THEN /\ git' = [git EXCEPT !.push_prompt = "no"]
                      /\ pc' = "cleanup"
                      /\ UNCHANGED <<i, hctx, cb, fail>>
                 ELSE IF ok
                 THEN /\ git' = [git EXCEPT !.pushed = TRUE, !.push_prompt = "yes"]
                      /\ pc' = "cleanup"
                      /\ UNCHANGED <<i, hctx, cb, fail>>
                 ELSE /\ git' = [git EXCEPT !.push_prompt = "yes"]
                      /\ EnterHandler("except", "tool")
    /\ UNCHANGED <<peers, wiki, cb_calls, cmd, opts, dirty, app_on_error, exit_code, files, hist, pub>>

\* cleanup (lines 612-620): package.json.bak removed when found, the .npmrc of
\* every component but root removed when found
cleanup_bak(bak) == [k \in Comps |-> <<>>]
\* cleanup leaving the linked .npmrc files in place
cleanup_npmrc_kept(rc) == rc

cleanup_npmrc(rc) == [k \in Comps |-> unlink_npmrc_file(rc, k)[k]]

\* lines 160-162: cleanup(all_components), return True
publish_cleanup ==
    /\ cmd = "publish" /\ pc = "cleanup"
    /\ pkg_bak' = cleanup_bak(pkg_bak)
    /\ npmrc' = cleanup_npmrc(npmrc)
    /\ pc' = "return_true"
    /\ UNCHANGED <<peers, wiki, cb_calls, cmd, opts, dirty, i, hctx, cb, fail, app_on_error, exit_code, pkg, lock,
                   lock_bak, hist, vcs, pub>>

\* the callback registered at line 57, run by handler
publish_cleanup_on_error ==
    /\ pc = "handler" /\ cb <= Len(app_on_error)
    /\ app_on_error[cb] = "publish_cleanup"
    /\ pkg_bak' = cleanup_bak(pkg_bak)
    /\ npmrc' = cleanup_npmrc(npmrc)
    /\ cb' = cb + 1
    /\ cb_calls' = cb_calls + 1
    /\ UNCHANGED <<peers, wiki, cmd, opts, dirty, pc, i, hctx, fail, app_on_error, exit_code, pkg, lock,
                   lock_bak, hist, vcs, pub>>

\* ------------------------------------------------- update / upgrade: the runs
\* no requirement check takes part in an update, upgrade or publish run
NoPeerScan ==
    /\ npm_view = <<>>
    /\ dependencies = <<>>
    /\ mismatches = <<>>

NoPeerCheck ==
    /\ matching_dep = <<0, 0, 0>>
    /\ peer_version_requirement = <<>>
    /\ satisfied = <<>>
    /\ NoPeerScan

NoFlags == [no_git |-> FALSE, dry_run |-> FALSE, skip_existing |-> FALSE, always_ask |-> FALSE]

NoPinned ==
    /\ page = <<>>
    /\ pinned_deps_in_use = {}
    /\ uploads = 0
    /\ runs = 0

InitRun ==
    /\ pc = "start"
    /\ i = 1
    /\ hctx = "body"
    /\ cb = 1
    /\ app_on_error = <<>>
    /\ cb_calls = 0
    /\ exit_code = -1
    /\ pkg_bak = [k \in Comps |-> <<>>]
    /\ lock_bak = [k \in Comps |-> "none"]
    /\ pkg0 = pkg
    /\ lock0 = lock
    /\ staged = FALSE
    /\ cleaned = 0
    /\ touched = {}
    /\ fail = [pc |-> "none", kind |-> "none"]
    /\ git = [commits |-> 0, tags |-> {}, pushed |-> FALSE, push_prompt |-> "none"]
    /\ publishable = <<>>
    /\ registries = {}
    /\ forced_updates = [k \in Comps |-> EmptyMap]
    /\ rewritten = {}
    /\ written = {}
    /\ confirm = "none"
    /\ hooked = {}
    /\ published = {}
    /\ skipped = {}
    /\ existing = {}
    /\ scope_writes = 0

InitCommon == InitRun /\ NoPinned

InitUpdate ==
    /\ cmd = "update"
    /\ NoPeerCheck
    /\ \E ng \in BOOLEAN : opts = [NoFlags EXCEPT !.no_git = ng] /\ dirty \in {ng, TRUE}
    /\ \E v \in InitVersions :
          \E dep \in Opt(SampleReqs(v)), dev \in Opt({Req(Caret, v), Req(Caret, next_major(v))}) :
              pkg = Manifests(v, v, dep, dev, {})
    /\ \E missing \in {0, 1, Dependent} :
          lock = [k \in Comps |-> IF k = missing THEN "none" ELSE "original"]
    /\ npmrc = [k \in Comps |-> "none"]
    /\ config = [publish_mode |-> "none", publish_tag_name |-> <<>>]
    /\ scope_json = StoredScope(config)

InitUpgrade ==
    /\ cmd = "upgrade"
    /\ NoPeerCheck
    /\ opts = NoFlags
    /\ dirty = FALSE
    /\ \E v \in InitVersions : pkg = Manifests(v, v, <<Req(Caret, v)>>, <<>>, {})
    /\ lock = [k \in Comps |-> "original"]
    /\ \E r \in {"none", "root"}, own \in {"none", "own"} :
          npmrc = [k \in Comps |-> IF k = Root THEN r ELSE IF k = 1 THEN own ELSE "none"]
    /\ config = [publish_mode |-> "none", publish_tag_name |-> <<>>]
    /\ scope_json = StoredScope(config)

Init == (InitUpdate \/ InitUpgrade) /\ InitCommon

Next ==
    \/ update_run_begin
    \/ update_backup_package_files
    \/ update_prepare_components
    \/ update_npm_update
    \/ update_cleanup_on_success
    \/ update_reinstall
    \/ update_commit_changes
    \/ update_cleanup_on_error
    \/ upgrade_run_begin
    \/ upgrade_backup_package_files
    \/ upgrade_link_npmrc_file
    \/ upgrade_ncu
    \/ upgrade_cleanup_on_success
    \/ upgrade_install
    \/ upgrade_cleanup_on_error
    \/ cmd_wrapper_ok
    \/ handler_exit
    \/ Interrupt

Spec == Init /\ [][Next]_vars

\* ---------------------------------------------------------- the publish runs
\* The runs start from three families of repositories: every sampled set of
\* package.json files under default flags (the user is asked for the publish
\* mode; the root has no .npmrc, so only the NPM registry can be selected), and
\* one set of package.json files under every combination of flags, stored
\* publish mode and presence of the root's .npmrc (a tag name is stored), and
\* that set with the publish mode 'all' stored and no usable tag name.
InitPublishManifests ==
    /\ opts = NoFlags
    /\ dirty = FALSE
    /\ config = [publish_mode |-> "none", publish_tag_name |-> <<>>]
    /\ \E v \in InitVersions :
          \E vk \in {v, next_patch(v)},
             dep \in Opt({Req(Caret, v), Req(Tilde, v), Latest}),
             dev \in Opt({Req(Exact, v)}),
             priv \in {{}, {Dependent}, 1..NLerna} :
                pkg = Manifests(v, vk, dep, dev, priv)
    /\ npmrc = [k \in Comps |-> "none"]

\* a publish_tag_name stored in scope.json
StoredTagName == <<"r", "e", "l">>

InitPublishFlags ==
    /\ \E dr \in BOOLEAN, ng \in BOOLEAN, se \in BOOLEAN, aa \in BOOLEAN :
          /\ opts = [no_git |-> ng, dry_run |-> dr, skip_existing |-> se, always_ask |-> aa]
          /\ dirty \in {ng, TRUE}
          /\ config \in {[publish_mode |-> m, publish_tag_name |-> <<StoredTagName>>] :
                            m \in IF aa THEN {"independent"} ELSE {"all", "independent"}}
    /\ pkg = Manifests(<<1, 0, 0>>, <<1, 0, 0>>, <<Req(Caret, <<1, 0, 0>>)>>, <<>>, {})
    /\ \E r \in {"none", "root"} : npmrc = [k \in Comps |-> IF k = Root THEN r ELSE "none"]

\* a repository whose scope.json stores the publish mode 'all' with no tag
\* name or an empty one
InitPublishTags ==
    /\ opts = NoFlags
    /\ dirty = FALSE
    /\ config \in {[publish_mode |-> "all", publish_tag_name |-> n] : n \in {<<>>, << <<>> >>}}
    /\ pkg = Manifests(<<1, 0, 0>>, <<1, 0, 0>>, <<Req(Caret, <<1, 0, 0>>)>>, <<>>, {})
    /\ npmrc = [k \in Comps |-> "none"]

\* requirements with a comparison operator, the wildcard and a compound range
\* that the dependent component may declare on component 1 (at version v)
ComparatorReqs(v) ==
    {Req(GreaterEq, v), Req(LessEq, next_major(v)), Req(Greater, <<0, 0, 1>>),
     Req(Less, next_major(next_major(v))), Star,
     Req(GreaterEq, v) \o <<" ">> \o Req(Less, next_major(next_major(v)))}

\* a repository whose dependent component declares component 1 with such a
\* requirement
InitPublishRanges ==
    /\ opts = NoFlags
    /\ dirty = FALSE
    /\ config = [publish_mode |-> "all", publish_tag_name |-> <<StoredTagName>>]
    /\ \E dep \in ComparatorReqs(<<1, 0, 0>>) :
          pkg = Manifests(<<1, 0, 0>>, <<1, 0, 0>>, <<dep>>, <<>>, {})
    /\ npmrc = [k \in Comps |-> "none"]

InitPublishRepo ==
    /\ cmd = "publish"
    /\ NoPeerCheck
    /\ lock = [k \in Comps |-> "original"]
    /\ InitPublishManifests \/ InitPublishFlags \/ InitPublishTags \/ InitPublishRanges
    /\ scope_json = StoredScope(config)

InitPublish == InitPublishRepo /\ InitCommon

NextPublish ==
    \/ publish_run_begin
    \/ publish_ask_user_for_components_and_version
    \/ publish_ask_user_for_registry
    \/ publish_pre_publish_global
    \/ publish_update_version
    \/ publish_confirm_forced_updates
    \/ publish_pre_publish
    \/ publish_github
    \/ publish_npm
    \/ publish_post_publish
    \/ publish_update_lock_files
    \/ publish_prepare_commit_and_tags
    \/ publish_post_publish_global
    \/ publish_push_to_origin
    \/ publish_cleanup
    \/ publish_cleanup_on_error
    \/ cmd_wrapper_ok
    \/ handler_exit
    \/ Interrupt

SpecPublish == InitPublish /\ [][NextPublish]_vars

\* --------------------------------------------- publish runs and scope.json
\* Contents of scope.json: without the key `repomaintain`, or with it and
\* every combination of an absent, null, valid, invalid publish_mode, an
\* absent, null, empty, non-empty publish_tag_name, and a further key.
ScopeContents ==
    {[scope |-> "@shapediver", has_repomaintain |-> FALSE,
      repomaintain |-> [publish_mode |-> ModeAbsent, publish_tag_name |-> TagAbsent,
                        extra |-> FALSE]]}
    \cup {[scope |-> "@shapediver", has_repomaintain |-> TRUE,
           repomaintain |-> [publish_mode |-> m, publish_tag_name |-> n, extra |-> e]] :
              m \in {ModeAbsent, ModeNull, ModeString("all"), ModeString("independent"),
                     ModeString("some")},
              n \in {TagAbsent, TagNull, TagString(<<>>), TagString(StoredTagName)},
              e \in BOOLEAN}

\* publish runs, with and without --always-ask, over one set of package.json
\* files and every such scope.json; run loads config from it (line 47)
InitCliConfig ==
    /\ cmd = "publish"
    /\ NoPeerCheck
    /\ opts \in {[NoFlags EXCEPT !.always_ask = aa] : aa \in BOOLEAN}
    /\ dirty = FALSE
    /\ scope_json \in ScopeContents
    /\ config = load_cli_config(scope_json)
    /\ pkg = Manifests(<<1, 0, 0>>, <<1, 0, 0>>, <<>>, <<>>, {})
    /\ lock = [k \in Comps |-> "original"]
    /\ npmrc = [k \in Comps |-> "none"]
    /\ InitCommon

SpecCliConfig == InitCliConfig /\ [][NextPublish]_vars

\* ------------------------------------- runs started on a dirty working tree
\* update and publish runs whose repository has uncommitted changes, with and
\* without --no-git (update then never reaches commit_changes)
InitDirtyTree ==
    /\ InitUpdate \/ InitPublishRepo
    /\ dirty = TRUE
    /\ InitCommon

NextDirtyTree ==
    \/ update_run_begin
    \/ update_backup_package_files
    \/ update_prepare_components
    \/ update_npm_update
    \/ update_cleanup_on_success
    \/ update_reinstall
    \/ update_cleanup_on_error
    \/ NextPublish

SpecDirtyTree == InitDirtyTree /\ [][NextDirtyTree]_vars

\* ------------------------------------------- check-peers: requirement checks
\* The versions and requirement strings that the check is run on: every
\* operator with every anchor, the wildcard, terms without a version, ranges
\* joined by blanks (AND) and by `||` (OR).
PeerVersions ==
    {<<a, b, c>> : a, b, c \in 0..(MaxPart + 1)} \cup {<<9, 1, 0>>, <<10, 0, 0>>}
Anchors == {<<a, b, c>> : a, b, c \in 0..MaxPart} \cup {<<9, 0, 0>>}
MajorAnchors == {<<a, 0, 0>> : a \in 0..(MaxPart + 1)}

Equal == <<"=">>
Operators == {Caret, Tilde, GreaterEq, LessEq, Greater, Less, Equal, Exact}

Blank == <<" ">>
OrSign == <<" ", "|", "|", " ">>

SingleTerms == {Req(op, a) : op \in Operators, a \in Anchors} \cup {Star}
\* anchors written with one or two components, as in `>=1` and `>=1.2`
PartialAnchors == {<<a>> : a \in 0..MaxPart} \cup {<<a, b>> : a, b \in 0..MaxPart}
FormatPartial(a) ==
    IF Len(a) = 1 THEN NatToChars(a[1]) ELSE NatToChars(a[1]) \o <<".">> \o NatToChars(a[2])
Comparators == {GreaterEq, LessEq, Greater, Less, Equal, Exact}
PartialTerms == {op \o FormatPartial(a) : op \in Comparators, a \in PartialAnchors}
NoVersionTerms == {op \o word : op \in Operators, word \in {<<>>, Latest}}
AndRanges == {Req(GreaterEq, a) \o Blank \o Req(Less, b) : a, b \in MajorAnchors}
OrRanges ==
    {x \o OrSign \o Req(Caret, c) :
        x \in AndRanges \cup {Req(Caret, a) : a \in MajorAnchors}, c \in MajorAnchors}
Requirements == SingleTerms \cup PartialTerms \cup NoVersionTerms \cup AndRanges \cup OrRanges

\* _find_peer_dependency_mismatches, lines 240-244: the version of one collected
\* dependency is checked against one requirement returned by the registry
\* (run_check_peers then returns True, mismatch or not)
_find_peer_dependency_mismatches ==
    /\ cmd = "check-peers" /\ pc = "start"
    /\ satisfied' = <<_version_satisfies_requirement(matching_dep, peer_version_requirement)>>
    /\ pc' = "return_true"
    /\ UNCHANGED <<cb_calls, cmd, opts, dirty, i, hctx, cb, fail, app_on_error, exit_code, files,
                   hist, vcs, pub, matching_dep, peer_version_requirement, npm_view,
                   dependencies, mismatches, wiki>>

InitCheckPeers ==
    /\ cmd = "check-peers"
    /\ opts = NoFlags
    /\ dirty = FALSE
    /\ config = [publish_mode |-> "none", publish_tag_name |-> <<>>]
    /\ scope_json = StoredScope(config)
    /\ pkg = Manifests(<<1, 0, 0>>, <<1, 0, 0>>, <<>>, <<>>, {})
    /\ lock = [k \in Comps |-> "original"]
    /\ npmrc = [k \in Comps |-> "none"]
    /\ matching_dep \in PeerVersions
    /\ peer_version_requirement \in Requirements
    /\ satisfied = <<>>
    /\ NoPeerScan
    /\ InitCommon

NextCheckPeers ==
    \/ _find_peer_dependency_mismatches
    \/ cmd_wrapper_ok

SpecCheckPeers == InitCheckPeers /\ [][NextCheckPeers]_vars

\* ------------------------------------------------- check-peers: the scan
ScanMaps == {"dependencies", "devDependencies", "peerDependencies"}

\* _read_package_dependencies: the three maps merged by dict.update in the
\* order runtime, dev, peer: the entry of a later map replaces that of an
\* earlier one
_read_package_dependencies(package_data) ==
    [n \in DOMAIN package_data.dependencies \cup DOMAIN package_data.devDependencies
            \cup DOMAIN package_data.peerDependencies |->
        IF n \in DOMAIN package_data.peerDependencies THEN package_data.peerDependencies[n]
        ELSE IF n \in DOMAIN package_data.devDependencies THEN package_data.devDependencies[n]
        ELSE package_data.dependencies[n]]

\* lines 141-146: dependencies.setdefault(key, ...)["components"].append(name),
\* the key being (name, str(version))
AppendComponent(deps, name, version, component) ==
    IF \E k \in DOMAIN deps : deps[k].name = name /\ deps[k].version = version
    THEN [k \in DOMAIN deps |->
            IF deps[k].name = name /\ deps[k].version = version
            THEN [deps[k] EXCEPT !.components = Append(@, component)]
            ELSE deps[k]]
    ELSE Append(deps, [name |-> name, version |-> version, components |-> <<component>>])

\* lines 132-146: the loop over the entries of one component (taken in the
\* order of the names); an entry without a version is skipped
RECURSIVE CollectEntries(_, _, _, _)
CollectEntries(deps, deps_dict, names, component) ==
    IF names = {} THEN deps
    ELSE LET name == CHOOSE n \in names : \A m \in names : n <= m
             version == _extract_version_from_string(deps_dict[name])
         IN CollectEntries(IF version = <<>> THEN deps
                           ELSE AppendComponent(deps, name, version[1], component),
                           deps_dict, names \ {name}, component)

\* _collect_component_dependencies over the components 1..k
RECURSIVE _collect_component_dependencies(_, _)
_collect_component_dependencies(manifests, k) ==
    IF k = 0 THEN <<>>
    ELSE CollectEntries(_collect_component_dependencies(manifests, k - 1),
                        _read_package_dependencies(manifests[k]),
                        DOMAIN _read_package_dependencies(manifests[k]), k)

\* _parse_npm_object_output: JSON and JavaScript object notation give the
\* object; any other text is read line by line, a line with a colon giving
\* one entry (a later line replaces an earlier one with the same key)
_parse_npm_object_output(output) ==
    IF output.format \in {"json", "js"} THEN output.entries
    ELSE LET with_colon == {k \in DOMAIN output.lines : output.lines[k].colon}
             last(key) == CHOOSE k \in with_colon :
                             /\ output.lines[k].key = key
                             /\ \A h \in with_colon : output.lines[h].key = key => h <= k
         IN [key \in {output.lines[k].key : k \in with_colon} |-> output.lines[last(key)].value]

\* the fetch that reads the output whether or not the command failed
_fetch_peer_dependencies_unguarded(view) ==
    IF view.format = "blank" THEN EmptyMap ELSE _parse_npm_object_output(view)

\* _fetch_peer_dependencies: {} when run_process raises or prints nothing
_fetch_peer_dependencies(view) ==
    IF view.status = "error" THEN EmptyMap
    ELSE IF view.format = "blank" THEN EmptyMap
    ELSE _parse_npm_object_output(view)

\* the first peer name in the order that the model takes the names in
FirstName(names) == CHOOSE n \in names : \A m \in names : n <= m

\* lines 237-243: the collected dependencies of the peer name whose version
\* does not satisfy the requirement
FailingDeps(deps, peer_name, requirement) ==
    SelectSeq(deps, LAMBDA d :
        d.name = peer_name /\ ~_version_satisfies_requirement(d.version, requirement))

\* lines 244-252: the record made for the k-th of them
Mismatch(dep, peer_name, requirement, matching) ==
    [dependency_name |-> dep.name,
     dependency_version |-> dep.version,
     peer_name |-> peer_name,
     required_peer_version |-> requirement,
     actual_peer_version |-> matching.version,
     affected_components |-> matching.components]

MismatchRecords(dep, peer_name, requirement, failing) ==
    [k \in 1..Len(failing) |-> Mismatch(dep, peer_name, requirement, failing[k])]

\* the loop that stops at the first collected dependency of a peer name whose
\* version does not satisfy the requirement
FirstMismatchRecord(dep, peer_name, requirement, failing) ==
    [k \in 1..(IF failing = <<>> THEN 0 ELSE 1) |->
        Mismatch(dep, peer_name, requirement, failing[k])]

RECURSIVE PeerMismatches_first(_, _, _, _)
PeerMismatches_first(deps, dep, peer_deps, names) ==
    IF names = {} THEN <<>>
    ELSE FirstMismatchRecord(dep, FirstName(names), peer_deps[FirstName(names)],
                             FailingDeps(deps, FirstName(names), peer_deps[FirstName(names)]))
         \o PeerMismatches_first(deps, dep, peer_deps, names \ {FirstName(names)})

\* lines 234-253 for one dependency: one record for every peer name (taken in
\* the order of the names) and every collected dependency of that name whose
\* version does not satisfy the requirement
RECURSIVE PeerMismatches(_, _, _, _)
PeerMismatches(deps, dep, peer_deps, names) ==
    IF names = {} THEN <<>>
    ELSE MismatchRecords(dep, FirstName(names), peer_deps[FirstName(names)],
                         FailingDeps(deps, FirstName(names), peer_deps[FirstName(names)]))
         \o PeerMismatches(deps, dep, peer_deps, names \ {FirstName(names)})

\* the peer map fetched for the collected dependency dep
FetchedFor(dep) == _fetch_peer_dependencies(npm_view[<<dep.name, dep.version>>])

\* run_check_peers, lines 400-405
run_check_peers_collect ==
    /\ cmd = "check-peers" /\ pc = "start"
    /\ dependencies' = _collect_component_dependencies(pkg, Root)
    /\ pc' = IF dependencies' = <<>> THEN "return_true" ELSE "scan"
    /\ UNCHANGED <<cb_calls, cmd, opts, dirty, i, hctx, cb, fail, app_on_error, exit_code, files,
                   hist, vcs, pub, matching_dep, peer_version_requirement, satisfied, npm_view,
                   mismatches, wiki>>

\* _find_peer_dependency_mismatches, lines 231-253: one turn of the outer loop
run_check_peers_scan ==
    /\ cmd = "check-peers" /\ pc = "scan"
    /\ mismatches' = mismatches \o PeerMismatches(dependencies, dependencies[i],
                                                   FetchedFor(dependencies[i]),
                                                   DOMAIN FetchedFor(dependencies[i]))
    /\ i' = i + 1
    /\ pc' = IF i = Len(dependencies) THEN "report" ELSE "scan"
    /\ UNCHANGED <<cb_calls, cmd, opts, dirty, hctx, cb, fail, app_on_error, exit_code, files,
                   hist, vcs, pub, matching_dep, peer_version_requirement, satisfied, npm_view,
                   dependencies, wiki>>

\* run_check_peers, lines 411-420: the mismatches are printed
run_check_peers_report ==
    /\ cmd = "check-peers" /\ pc = "report"
    /\ pc' = "return_true"
    /\ UNCHANGED <<peers, wiki, cb_calls, cmd, opts, dirty, i, hctx, cb, fail, app_on_error, exit_code,
                   files, hist, vcs, pub>>

\* The package.json files that the scan is run on. 0 is an external package,
\* 1 a library whose releases declare peers.
ScanManifest(dep, dev, peer) ==
    [version |-> <<1, 0, 0>>, private |-> FALSE,
     dependencies |-> dep, devDependencies |-> dev, peerDependencies |-> peer]

ScanManifests ==
    {ScanManifest(0 :> Req(Caret, <<1, 0, 0>>), EmptyMap, EmptyMap),
     ScanManifest((0 :> Req(Caret, <<2, 0, 0>>)) @@ (1 :> Req(Caret, <<1, 0, 0>>)),
                  EmptyMap, EmptyMap),
     ScanManifest(1 :> Req(Tilde, <<1, 0, 0>>), EmptyMap, 0 :> Req(Caret, <<1, 0, 0>>)),
     ScanManifest(0 :> Req(Caret, <<2, 0, 0>>), 0 :> Req(Caret, <<2, 0, 0>>),
                  0 :> Req(Caret, <<1, 0, 0>>)),
     ScanManifest((0 :> Latest) @@ (1 :> Req(Tilde, <<2, 0, 0>>)), EmptyMap, EmptyMap),
     ScanManifest(EmptyMap, EmptyMap, EmptyMap)}

ScanVersions == {<<1, 0, 0>>, <<2, 0, 0>>}

\* npm view fails, prints nothing, prints an object as JSON or in JavaScript
\* notation, or prints other text
View(status, format, entries, lines) ==
    [status |-> status, format |-> format, entries |-> entries, lines |-> lines]
ColonLine(key, value) == [colon |-> TRUE, key |-> key, value |-> value]
OtherLine == [colon |-> FALSE, key |-> 0, value |-> <<>>]

LibraryViews ==
    {View("error", "blank", EmptyMap, <<>>),
     View("error", "json", 0 :> Req(Caret, <<1, 0, 0>>), <<>>),
     View("ok", "blank", EmptyMap, <<>>),
     View("ok", "text", EmptyMap, <<OtherLine, OtherLine>>),
     View("ok", "text", EmptyMap, <<OtherLine, ColonLine(0, Req(Caret, <<1, 0, 0>>))>>),
     View("ok", "json", 0 :> Req(Caret, <<1, 0, 0>>), <<>>),
     View("ok", "js", 0 :> Req(Caret, <<2, 0, 0>>), <<>>),
     View("ok", "js", 0 :> Req(Caret, <<9, 0, 0>>), <<>>),
     View("ok", "json", (0 :> Req(Caret, <<1, 0, 0>>)) @@ (1 :> Req(Caret, <<1, 0, 0>>)), <<>>)}

ExternalViews ==
    {View("error", "blank", EmptyMap, <<>>),
     View("ok", "blank", EmptyMap, <<>>),
     View("ok", "json", 1 :> Req(Tilde, <<2, 0, 0>>), <<>>)}

InitPeerScan ==
    /\ cmd = "check-peers"
    /\ opts = NoFlags
    /\ dirty = FALSE
    /\ config = [publish_mode |-> "none", publish_tag_name |-> <<>>]
    /\ scope_json = StoredScope(config)
    /\ pkg \in [Comps -> ScanManifests]
    /\ lock = [k \in Comps |-> "original"]
    /\ npmrc = [k \in Comps |-> "none"]
    /\ matching_dep = <<0, 0, 0>>
    /\ peer_version_requirement = <<>>
    /\ satisfied = <<>>
    /\ \E library \in LibraryViews, external \in ExternalViews :
          npm_view = [key \in {0, 1} \X ScanVersions |->
                        IF key[1] = 1 THEN library ELSE external]
    /\ dependencies = <<>>
    /\ mismatches = <<>>
    /\ InitCommon

NextPeerScan ==
    \/ run_check_peers_collect
    \/ run_check_peers_scan
    \/ run_check_peers_report
    \/ cmd_wrapper_ok

SpecPeerScan == InitPeerScan /\ [][NextPeerScan]_vars

\* =================================================== update / upgrade claims
NoBackupLeft == \A c \in Comps : pkg_bak[c] = <<>> /\ lock_bak[c] = "none"

\* every file that backup_package_files copied has its content of that moment
StagedFilesRestored ==
    \A c \in Comps :
        /\ pkg[c] = pkg0[c]
        /\ (cmd = "update" /\ lock0[c] # "none") => lock[c] = lock0[c]

\* the command function was left (exception, False, interrupt) after staging
\* had completed and before cleanup_on_success was started
FailedInMutation == fail.kind # "none" /\ staged /\ cleaned = 0

C2_RestoredAfterLateFailure ==
    (pc = "exit" /\ exit_code = 1 /\ fail.pc \in {"reinstall", "commit", "install"})
        => StagedFilesRestored

\* a component whose updated manifest differs from its pre-run manifest holds
\* the updated content / holds the pre-run content
HoldsUpdated(c) == c \in touched /\ pkg[c] # pkg0[c]
HoldsPreRun(c) == c \in touched /\ pkg[c] = pkg0[c]

\* C3 (as claimed): an interrupt at any point of an update run after staging
\* leaves no mix of updated and pre-run package.json files at exit, and the
\* exit code is non-zero.
C3_InterruptLeavesNoMix ==
    (cmd = "update" /\ pc = "exit" /\ staged /\ (fail.kind = "interrupt" \/ exit_code = 130))
        => /\ exit_code # 0
           /\ ~(\E c1, c2 \in Comps : HoldsUpdated(c1) /\ HoldsPreRun(c2))

\* C4 (as claimed): an update run with a component that had no
\* package-lock.json at staging, a clean tree, valid ranges, no interrupt and
\* only succeeding external commands ends with exit code 0 and no .bak file.
C4_MissingLockRunSucceeds ==
    (/\ cmd = "update" /\ pc = "exit"
     /\ \E c \in Comps : lock0[c] = "none"
     /\ ~(dirty /\ ~opts.no_git)
     /\ fail.kind \notin {"interrupt", "tool", "false"}
     /\ exit_code # 130
     /\ fail.pc # "prepare")
        => (exit_code = 0 /\ NoBackupLeft)

\* ============================================================ publish claims
\* the target-version map of the run (fixed once the components are selected)
TargetMap == publishable_component_map(publishable)

\* prefix + targetVersion for the requirement `old`
Retargeted(old, target) == semver_specifier(old) \o FormatVersion(target)

\* update_version has been started and the command function was left later
FailedAfterVersioning ==
    /\ fail.kind \in {"message", "tool", "error"}
    /\ fail.pc \in {"update_version", "confirm", "pre_publish", "github", "publish_npm",
                    "post_publish"}

\* C5 (as claimed): a publish run in dry-run mode that completes (with or
\* without --no-git) leaves the version field of every package.json as it was
\* before the run and has created no Git commit and no Git tag.
C5_DryRunLeavesNoTrace ==
    (cmd = "publish" /\ opts.dry_run /\ pc = "exit" /\ exit_code = 0)
        => /\ \A c \in Comps : pkg[c].version = pkg0[c].version
           /\ git.commits = 0
           /\ git.tags = {}

\* C6 (as claimed): a publish run that fails after update_version started
\* writing (declined confirmation, unparsable range, failing hook or publish,
\* existing package without --skip-existing) ends, after the registered handler
\* ran, with every package.json and package-lock.json holding its pre-run
\* content, no copied .npmrc, and a non-zero exit code.
C6_PublishFailureRollsBack ==
    (cmd = "publish" /\ pc = "exit" /\ exit_code # 130 /\ FailedAfterVersioning)
        => /\ exit_code > 0
           /\ \A c \in Comps : pkg[c] = pkg0[c] /\ lock[c] = lock0[c]
           /\ \A c \in 1..NLerna : npmrc[c] # "root"

\* the dependency maps of component c keep their names
SameNames(c) ==
    /\ DOMAIN pkg[c].dependencies = DOMAIN pkg0[c].dependencies
    /\ DOMAIN pkg[c].devDependencies = DOMAIN pkg0[c].devDependencies

\* the version field of c is its target if c is selected, else unchanged
VersionSet(c, map) ==
    pkg[c].version = IF c \in DOMAIN map THEN map[c] ELSE pkg0[c].version

\* every entry of the dependency map w of component c whose name is in
\* `named` is prefix + target, the other entries of that map are unchanged
EntriesRetargeted(c, w, named, map) ==
    \A n \in DOMAIN pkg0[c][w] :
        pkg[c][w][n] = IF n \in named THEN Retargeted(pkg0[c][w][n], map[n]) ELSE pkg0[c][w][n]

\* update_version has returned or is at its confirmation
VersioningDone == pc = "confirm" \/ confirm # "none" \/ hooked # {}

\* C7 (as claimed): every component is written; in each, every runtime or dev
\* entry named in the target map is prefix + target, the version of a selected
\* component is its target, and every other version and entry is unchanged.
C7_EveryNamedEntryRetargeted ==
    LET map == TargetMap
    IN /\ VersioningDone => written = Comps
       /\ \A c \in Comps \ written : pkg[c] = pkg0[c]
       /\ \A c \in written :
             /\ SameNames(c) /\ VersionSet(c, map)
             /\ EntriesRetargeted(c, "dependencies", DOMAIN map, map)
             /\ EntriesRetargeted(c, "devDependencies", DOMAIN map, map)

\* C7 (amended): as claimed, except that a dev entry named in the target map
\* is rewritten to prefix + target only when the name is absent from the
\* component's runtime map; a dev entry whose name is also a runtime entry is
\* left unchanged.
C7_NamedEntryRetargetedRuntimeFirst ==
    LET map == TargetMap
    IN /\ VersioningDone => written = Comps
       /\ \A c \in Comps \ written : pkg[c] = pkg0[c]
       /\ \A c \in written :
             /\ SameNames(c) /\ VersionSet(c, map)
             /\ EntriesRetargeted(c, "dependencies", DOMAIN map, map)
             /\ EntriesRetargeted(c, "devDependencies",
                                  DOMAIN map \ DOMAIN pkg0[c].dependencies, map)

\* update_version has written every component; the dependent component is not
\* selected and names component 1 in both maps with the range ~v; its runtime
\* entry is now ~target
C7_Witness ==
    /\ written = Comps
    /\ 1 \in DOMAIN TargetMap /\ Dependent \notin DOMAIN TargetMap
    /\ 1 \in DOMAIN pkg0[Dependent].dependencies
    /\ 1 \in DOMAIN pkg0[Dependent].devDependencies
    /\ pkg0[Dependent].dependencies[1] = Req(Tilde, pkg0[1].version)
    /\ pkg[Dependent].dependencies[1] = Req(Tilde, TargetMap[1])
    /\ pkg[1].version = TargetMap[1]

\* C8 (as claimed): a forced update is recorded for (component, name) exactly
\* when the target version does not satisfy the pre-existing requirement under
\* the evaluator of cmd_check_peers (caret: >= X.Y.Z and < (X+1).0.0).
C8_ForcedIffNotSatisfied ==
    \A c \in written : \A n \in DOMAIN TargetMap :
        WhichMap(pkg0[c], n) # "none" =>
            (n \in DOMAIN forced_updates[c]
                <=> ~_version_satisfies_requirement(TargetMap[n],
                                                    pkg0[c][WhichMap(pkg0[c], n)][n]))

\* C9: for every written component and every name of the target map,
\* update_internal_dependency is called at most once; a name in the runtime
\* map is rewritten there and its dev entry (if any) is unchanged; a name only
\* in the dev map is rewritten there.
C9_RuntimeFirstRewrittenOnce ==
    \A c \in written : \A n \in DOMAIN TargetMap :
        /\ Cardinality({t \in rewritten : t[1] = c /\ t[2] = n}) <= 1
        /\ n \in DOMAIN pkg0[c].dependencies =>
              /\ <<c, n, "dependencies">> \in rewritten
              /\ pkg[c].dependencies[n] = Retargeted(pkg0[c].dependencies[n], TargetMap[n])
              /\ n \in DOMAIN pkg0[c].devDependencies =>
                    pkg[c].devDependencies[n] = pkg0[c].devDependencies[n]
        /\ (n \notin DOMAIN pkg0[c].dependencies /\ n \in DOMAIN pkg0[c].devDependencies) =>
              /\ <<c, n, "devDependencies">> \in rewritten
              /\ pkg[c].devDependencies[n] = Retargeted(pkg0[c].devDependencies[n], TargetMap[n])

\* a component that names a selected component in both maps has been written,
\* with a forced update recorded for that name
C9_Witness ==
    \E c \in written : \E n \in DOMAIN TargetMap :
        /\ n \in DOMAIN pkg0[c].dependencies /\ n \in DOMAIN pkg0[c].devDependencies
        /\ pkg[c].dependencies[n] # pkg0[c].dependencies[n]
        /\ n \in DOMAIN forced_updates[c]

ForcedRecorded == \E c \in Comps : DOMAIN forced_updates[c] # {}

\* C10: once a forced update is recorded, no pre-publish hook of a component,
\* no registry publish and no commit has happened unless the user was asked
\* and confirmed; while no forced update is recorded no confirmation is asked,
\* and from the confirmation step update_version then hands over to the first
\* pre-publish hook (unless the user interrupts).
C10_ConfirmedBeforePublishing ==
    /\ [](/\ (ForcedRecorded /\ (hooked # {} \/ published # {} \/ git.commits > 0))
                => confirm = "yes"
          /\ ~ForcedRecorded => confirm = "none")
    /\ [][(pc = "confirm" /\ ~ForcedRecorded)
            => (confirm' = "none" /\ (pc' = "pre_publish" \/ fail'.kind = "interrupt"))]_vars

\* a run with a forced update that was confirmed, then published and committed
C10_Witness ==
    /\ ForcedRecorded /\ confirm = "yes"
    /\ hooked # {} /\ published # {} /\ git.commits > 0

\* C11: once the user has declined the forced-update confirmation, the run is
\* in its error handling or has ended; no pre-publish hook, no registry
\* publish, no commit, no tag and no push has been made; and the process ends
\* with exit code 1 (130 only if the user interrupts the error handler itself).
C11_DeclineAbortsWithoutTrace ==
    confirm = "no" =>
        /\ pc \in {"handler", "exit"}
        /\ hooked = {} /\ published = {}
        /\ git.commits = 0 /\ git.tags = {} /\ ~git.pushed
        /\ (pc = "exit" /\ exit_code # 130) => exit_code = 1

\* a run whose forced updates were declined has ended with exit code 1, the
\* manifests having been written by update_version before the question
C11_Witness ==
    /\ confirm = "no" /\ pc = "exit" /\ exit_code = 1
    /\ ForcedRecorded /\ written = Comps
    /\ fail = [pc |-> "confirm", kind |-> "message"]

\* ====================================================== strip-internal claims
\* prepare_components has returned and no later step has touched a manifest
Prepared == cmd = "update" /\ pc = "npm" /\ i = 1

\* the declared range of entry n of map w of component c covers the current
\* version of the internal component n (the test of prepare_components)
CoversCurrent(c, w, n) == NpmSpecMatch(components[n].version[1], pkg0[c][w][n])

\* C12 (as claimed): after prepare_components, in every component every
\* runtime or dev entry that names an internal component is removed if its
\* range covers that component's current version and is untouched if not; all
\* other entries and fields of the manifest are unchanged.
C12_CoveredEntriesRemoved ==
    Prepared =>
        \A c \in Comps :
            /\ pkg[c].version = pkg0[c].version /\ pkg[c].private = pkg0[c].private
            /\ \A w \in {"dependencies", "devDependencies"} :
                 /\ DOMAIN pkg[c][w] \subseteq DOMAIN pkg0[c][w]
                 /\ \A n \in DOMAIN pkg0[c][w] :
                      IF n \in Comps /\ CoversCurrent(c, w, n)
                      THEN n \notin DOMAIN pkg[c][w]
                      ELSE n \in DOMAIN pkg[c][w] /\ pkg[c][w][n] = pkg0[c][w][n]

\* C13 (as claimed): prepare_components applied to a manifest it has already
\* processed (no restore in between) leaves that manifest as it is.
C13_StripIdempotent ==
    Prepared =>
        \A c \in Comps : ~PrepareRaises(pkg[c]) => StripNames(pkg[c], Comps) = pkg[c]

\* ========================================================= check-peers claims
\* the requirement check has been made
Checked == cmd = "check-peers" /\ satisfied # <<>>

\* v is below w in the order of major, then minor, then patch
Below(v, w) ==
    \/ v[1] < w[1]
    \/ v[1] = w[1] /\ v[2] < w[2]
    \/ v[1] = w[1] /\ v[2] = w[2] /\ v[3] < w[3]

\* C14: for every version v and anchor X.Y.Z, the requirement ^X.Y.Z is
\* satisfied exactly when v is not below X.Y.Z and is below (X+1).0.0, the
\* bound being the number X + 1 (10.0.0 for the anchor 9.0.0).
C14_CaretRange ==
    Checked =>
        \A a \in Anchors :
            peer_version_requirement = Req(Caret, a) =>
                satisfied[1] = (~Below(matching_dep, a) /\ Below(matching_dep, <<a[1] + 1, 0, 0>>))

\* 2.0.0 has been checked against ^1.1.0 and found not to satisfy it
C14_Witness ==
    /\ Checked
    /\ matching_dep = <<2, 0, 0>>
    /\ peer_version_requirement = Req(Caret, <<1, 1, 0>>)
    /\ satisfied = <<FALSE>>

\* C15: for every version v and anchor X.Y.Z, the requirement ~X.Y.Z is
\* satisfied exactly when v is not below X.Y.Z and is below X.(Y+1).0.
C15_TildeRange ==
    Checked =>
        \A a \in Anchors :
            peer_version_requirement = Req(Tilde, a) =>
                satisfied[1] = (~Below(matching_dep, a) /\ Below(matching_dep, <<a[1], a[2] + 1, 0>>))

\* 1.1.0 has been checked against ~1.0.0 and found not to satisfy it
C15_Witness ==
    /\ Checked
    /\ matching_dep = <<1, 1, 0>>
    /\ peer_version_requirement = Req(Tilde, <<1, 0, 0>>)
    /\ satisfied = <<FALSE>>

\* the `||` branches of a requirement, and the blank-separated terms of a branch
OrBranches(requirement) == Split(requirement, <<"|", "|">>)

\* C16 (as claimed): a requirement (with no empty branch) is satisfied exactly
\* when at least one of its `||` branches has all of its blank-separated terms
\* satisfied.
C16_AndWithinOr ==
    LET branches == OrBranches(peer_version_requirement)
    IN (Checked /\ \A k \in DOMAIN branches : SplitBlank(branches[k]) # <<>>) =>
          satisfied[1] =
              \E k \in DOMAIN branches :
                  \A t \in Range(SplitBlank(branches[k])) :
                      _version_satisfies_single_requirement(matching_dep, t)

\* C17 (as claimed): a single term that is not empty, is not `*` and yields no
\* anchor version is treated as satisfied, whatever its operator.
C17_UnparsableTermSatisfied ==
    (/\ Checked
     /\ peer_version_requirement \in NoVersionTerms \ {<<>>}
     /\ _extract_version_from_string(peer_version_requirement) = <<>>)
        => satisfied = <<TRUE>>

\* C18: every version satisfies the requirement `*`.
C18_WildcardSatisfied ==
    (Checked /\ peer_version_requirement = Star) => satisfied = <<TRUE>>

\* a version has been checked against `*`
C18_Witness ==
    /\ Checked
    /\ peer_version_requirement = Star
    /\ matching_dep = <<10, 0, 0>>
    /\ satisfied = <<TRUE>>

\* ================================================== publish ordering claims
\* every selected component has, for every selected registry, been published
\* or been skipped because the version exists
AllPublishedOrSkipped ==
    \A k \in DOMAIN publishable : \A r \in registries :
        <<publishable[k].component, r>> \in published \cup skipped

\* C19: whenever a commit of the run exists, update_version has written every
\* manifest and every selected component has been published to, or skipped
\* for, every selected registry; and once the commit exists no manifest is
\* written and no publish call is made any more.
C19_CommitAfterWritesAndPublishes ==
    /\ [](git.commits > 0 => (written = Comps /\ AllPublishedOrSkipped))
    /\ [][git.commits > 0 =>
            (pkg' = pkg /\ written' = written /\ published' = published /\ skipped' = skipped)]_vars

\* a commit exists in a run that selected two components, published one pair
\* and skipped another
C19_Witness ==
    /\ git.commits > 0
    /\ ~opts.no_git
    /\ Len(publishable) = 2
    /\ published # {} /\ skipped # {}
    /\ written = Comps

\* the pre-publish hook, a registry publish or the post-publish hook of a
\* selected component has failed
FailedInComponentLoop ==
    /\ fail.kind \in {"tool", "message"}
    /\ fail.pc \in {"pre_publish", "github", "publish_npm", "post_publish"}

CommitStepDone == pc = "tag" /\ pc' = "post_global" /\ ~opts.no_git

\* all published components are published with one version
SharedVersion ==
    \A j, k \in DOMAIN publishable : publishable[j].new_version = publishable[k].new_version

\* one tag <name>@<version> per published component, nothing else
ComponentTags ==
    {tag_name_of(NatToChars(publishable[k].component), publishable[k].new_version) :
        k \in DOMAIN publishable}

\* after the step there is exactly the shared tag <tagName>@<version>, whose
\* name is non-empty, is the stored name when that is used, and is stored
SharedTagCreated ==
    /\ config'.publish_tag_name # <<>>
    /\ Len(config'.publish_tag_name[1]) > 0
    /\ uses_stored_tag_name => config' = config
    /\ git'.tags = {tag_name_of(config'.publish_tag_name[1], publishable[1].new_version)}

\* C21 (as claimed): the completed commit step has made one commit, and one
\* shared tag when all published components share one version, else one tag
\* per published component.
C21_SharedTagIffSharedVersion ==
    [][CommitStepDone =>
        /\ git'.commits = git.commits + 1
        /\ IF SharedVersion THEN SharedTagCreated ELSE git'.tags = ComponentTags]_vars

\* C21 (amended): the completed commit step has made one commit, and one
\* shared tag when the publish mode is 'all', else (mode 'independent') one
\* tag per published component, also when the selected components share one
\* version.
C21_SharedTagIffModeAll ==
    [][CommitStepDone =>
        /\ git'.commits = git.commits + 1
        /\ git.commits = 0 /\ git.tags = {}
        /\ IF config.publish_mode = "all" THEN SharedTagCreated
           ELSE git'.tags = ComponentTags]_vars

\* the commit step has completed in mode 'all' for two components, with the
\* prompted answer "v 1" as the shared tag name
C21_Witness ==
    /\ pc = "post_global" /\ git.commits = 1
    /\ config.publish_mode = "all" /\ Len(publishable) = 2
    /\ config.publish_tag_name = << <<"v", "_", "1">> >>
    /\ git.tags = {tag_name_of(<<"v", "_", "1">>, publishable[1].new_version)}

\* C22: references are pushed only after the push prompt was confirmed, never
\* in dry-run or --no-git mode (where the prompt is not shown); a run in which
\* the push was declined and nothing failed or interrupted it afterwards ends
\* with exit code 0, its commit and tags unpushed, and no package.json.bak or
\* linked .npmrc left in a component.
C22_PushOnlyWhenConfirmed ==
    /\ git.pushed => (git.push_prompt = "yes" /\ ~opts.dry_run /\ ~opts.no_git)
    /\ (opts.dry_run \/ opts.no_git) => git.push_prompt = "none"
    /\ git.push_prompt = "no" =>
          /\ ~git.pushed /\ git.commits = 1 /\ git.tags # {}
          /\ pc \in {"cleanup", "return_true", "handler", "exit"}
          /\ (pc = "exit" /\ fail.kind = "none") =>
                /\ exit_code = 0
                /\ \A c \in 1..NLerna : pkg_bak[c] = <<>> /\ npmrc[c] = "none"

\* a run whose push was declined has ended with exit code 0; a GitHub publish
\* had linked an .npmrc, which is removed
C22_Witness ==
    /\ git.push_prompt = "no" /\ pc = "exit" /\ exit_code = 0
    /\ git.commits = 1 /\ git.tags # {} /\ ~git.pushed
    /\ \E c \in 1..NLerna : <<c, "github">> \in published
    /\ registries = {"github"}

\* ========================================================= dirty-tree claims
\* the working tree is dirty and Git integration is not opted out
DirtyChecked == dirty /\ ~opts.no_git

\* C23: in an update or publish run on a dirty tree without --no-git, no step
\* ever writes a manifest, lock file, backup file, .npmrc or scope.json, runs
\* a hook, an update or a registry command, or touches Git, and the process
\* ends with exit code 1 (130 only if the error handling itself is
\* interrupted); with --no-git the run is not stopped by a dirty tree.
C23_DirtyTreeAborts ==
    /\ [][DirtyChecked =>
            /\ files' = files /\ config' = config /\ git' = git
            /\ touched' = touched /\ staged' = staged
            /\ registries' = registries /\ written' = written /\ reg' = reg]_vars
    /\ [](/\ DirtyChecked => pc \in {"start", "handler", "exit"}
          /\ (DirtyChecked /\ pc = "exit" /\ exit_code # 130) => exit_code = 1
          /\ (dirty /\ opts.no_git) => ~(fail.pc = "start" /\ fail.kind \in {"false", "message"}))

\* an update run on a dirty tree was stopped by the check and has ended
C23_Witness ==
    /\ cmd = "update" /\ DirtyChecked
    /\ pc = "exit" /\ exit_code = 1
    /\ fail = [pc |-> "start", kind |-> "false"]
    /\ pkg = pkg0 /\ NoBackupLeft

\* ============================================================ mode 'all'
\* the components that are not private, and their current versions
PublicComponents == {k \in 1..NLerna : ~pkg0[k].private}
PublicVersions == {pkg0[k].version : k \in PublicComponents}

\* the Selecting step has been passed without leaving the run
Selected == pc \notin {"start", "select"} /\ fail.pc \notin {"start", "select"}

\* C24: in publish mode 'all', if the public components do not share one
\* current version, the run never gets past the Selecting step: nothing is
\* selected, written, hooked or published, and the process ends with exit
\* code 1 (130 only if the error handling itself is interrupted); if they do,
\* the selection is every public component, in order, each with the same new
\* version, one of the offered successors of the current one.
C24_ModeAllNeedsOneVersion ==
    config.publish_mode = "all" =>
        /\ Cardinality(PublicVersions) > 1 =>
              /\ pc \in {"start", "select", "handler", "exit"}
              /\ publishable = <<>> /\ written = {} /\ hooked = {} /\ published = {}
              /\ pkg = pkg0
              /\ (pc = "exit" /\ exit_code # 130) => exit_code = 1
        /\ (Cardinality(PublicVersions) = 1 /\ Selected) =>
              /\ Len(publishable) = Cardinality(PublicComponents)
              /\ {publishable[k].component : k \in DOMAIN publishable} = PublicComponents
              /\ \A j, k \in DOMAIN publishable :
                    /\ j < k => publishable[j].component < publishable[k].component
                    /\ publishable[j].new_version = publishable[k].new_version
              /\ \E v \in PublicVersions :
                    publishable[1].new_version \in {next_minor(v), next_major(v)}

\* mode 'all' was chosen for two public components with different versions;
\* the run was stopped with the mismatch message and has ended
C24_Witness ==
    /\ config.publish_mode = "all"
    /\ Cardinality(PublicComponents) = 2 /\ Cardinality(PublicVersions) = 2
    /\ fail = [pc |-> "select", kind |-> "message"]
    /\ pc = "exit" /\ exit_code = 1

AllCallbacksRun == cb > Len(app_on_error)

\* C26 (as claimed): a command ends with exit code 0 exactly when its function
\* returned True and nothing was raised; after a False return, a
\* KeyboardInterrupt, a PrintMessageError or any other exception every callback
\* of app_on_error has been run and the exit code is 1; a run that ends with
\* exit code 0 has called no callback of app_on_error.
C26_ExitCodeContract ==
    pc = "exit" =>
        /\ exit_code = 0 <=> fail.kind = "none"
        /\ fail.kind # "none" => (exit_code = 1 /\ AllCallbacksRun)
        /\ exit_code = 0 => cb_calls = 0

\* ============================================================ private components
\* the components marked as private, the synthetic root among them
PrivateComponents == {k \in Comps : components[k].private}

\* C27: the root component is the last entry of the component list, private
\* and with an empty version, after the components of the workspace tool in
\* their order; no private component is ever in the selection, has had a
\* per-component hook run, has been checked for existence or published in a
\* registry, or has a tag <name>@<version>.
C27_PrivateNeverPublished ==
    /\ components[Root] = [name |-> Root, version |-> <<>>, private |-> TRUE]
    /\ \A k \in Comps : k <= Root /\ components[k].name = k
    /\ \A k \in DOMAIN publishable : publishable[k].component \notin PrivateComponents
    /\ hooked \cap PrivateComponents = {}
    /\ \A p \in published \cup skipped : p[1] \notin PrivateComponents
    /\ \A t \in git.tags, c \in PrivateComponents : ~StartsWith(t, NatToChars(c) \o <<"@">>)

\* a finished run over a repository with a private and a public workspace
\* component, in which the public one was hooked, published and tagged
C27_Witness ==
    /\ pc = "exit" /\ exit_code = 0
    /\ PrivateComponents # {Root} /\ public_components # {}
    /\ config.publish_mode = "independent"
    /\ hooked # {} /\ published # {} /\ git.tags # {}

\* ============================================================ strip and restore
DepMaps == {"dependencies", "devDependencies"}

\* the package.json of component c as prepare_components wrote it, and as the
\* external update tool left it
StrippedManifest(c) == StripNames(pkg0[c], Comps)
ToolManifest(c) == ToolRewrite(StrippedManifest(c), c \in touched)

\* the entry n of map w of component c was removed by prepare_components
Stripped(c, w, n) == n \in DOMAIN pkg0[c][w] /\ n \notin DOMAIN StrippedManifest(c)[w]

\* C28: when an update run has ended with exit code 0, every entry that
\* prepare_components removed is in the package.json again, in the map it was
\* removed from and with its original range, and every entry that stayed in
\* the stripped manifest has the range the external update tool left for it.
C28_StrippedEntriesRestored ==
    (cmd = "update" /\ pc = "exit" /\ exit_code = 0) =>
        \A c \in Comps, w \in DepMaps :
            /\ \A n \in DOMAIN pkg0[c][w] :
                  Stripped(c, w, n) => (n \in DOMAIN pkg[c][w] /\ pkg[c][w][n] = pkg0[c][w][n])
            /\ \A n \in DOMAIN StrippedManifest(c)[w] :
                  n \in DOMAIN pkg[c][w] /\ pkg[c][w][n] = ToolManifest(c)[w][n]

\* a successful update run in which an internal entry of a component was
\* stripped and the tool raised the range of the external package there
C28_Witness ==
    /\ cmd = "update" /\ pc = "exit" /\ exit_code = 0
    /\ \E c \in touched, w \in DepMaps, n \in Comps :
          /\ Stripped(c, w, n)
          /\ pkg[c].dependencies[ExtDep] = ExtReq1
          /\ pkg0[c].dependencies[ExtDep] # ExtReq1

\* ============================================================ rewritten requirements
\* C29 (as claimed): every requirement that update_version rewrote, while it
\* is in the package.json, is a range that the target version it was rewritten
\* to satisfies, whatever the kind of the requirement it replaced.
C29_RewrittenAcceptsTarget ==
    \A t \in rewritten :
        LET c == t[1]
            n == t[2]
            w == t[3]
        IN pkg[c][w][n] = Retargeted(pkg0[c][w][n], TargetMap[n]) =>
              /\ NpmSpecValid(pkg[c][w][n])
              /\ NpmSpecMatch(TargetMap[n], pkg[c][w][n])

\* C30 (as claimed): a command that failed and whose handler ran to its end
\* (exit code 1) has called each callback registered in app_on_error exactly
\* once, whether the failure was a False return, a KeyboardInterrupt, a
\* PrintMessageError or another exception.
C30_CallbacksRunExactlyOnce ==
    (pc = "exit" /\ exit_code = 1) => cb_calls = Len(app_on_error)

\* ============================================================ existing versions
\* the existence check of publishable[i] in registry r found the version, in
\* this step
FoundExisting(r) ==
    existing' # existing /\ <<publishable[i].component, r>> \in existing' \ existing

\* the step ran the existence check of registry r (pc at the registry's step,
\* the registry selected) and it did not find the version
FoundAbsent(r, at) ==
    /\ pc = at /\ pc' # at /\ fail'.kind # "interrupt"
    /\ r \in registries /\ existing' = existing

\* the step invoked `npm publish` for registry r: it published, or the
\* command failed
PublishInvoked(r, at) ==
    \/ published' = published \cup {<<publishable[i].component, r>>} /\ published' # published
    \/ fail' = [pc |-> at, kind |-> "tool"] /\ fail.kind = "none"

\* C31: no pair (component, registry) whose existence check found the version
\* is published; with --skip-existing the pair is skipped and the run goes on
\* with the next registry or the post-publish hook; without it the run leaves
\* the command function with a PrintMessageError; a check that does not find
\* the version (the query failed) is followed by `npm publish`.
C31_ExistingVersionNeverPublished ==
    /\ [](published \cap existing = {})
    /\ [][\A r \in {"github", "npm"} :
            /\ FoundExisting(r) =>
                  /\ published' = published
                  /\ IF opts.skip_existing
                     THEN /\ skipped' = skipped \cup {<<publishable[i].component, r>>}
                          /\ pc' = (IF r = "github" THEN "publish_npm" ELSE "post_publish")
                          /\ fail' = fail
                     ELSE /\ skipped' = skipped
                          /\ pc' = "handler" /\ fail'.kind = "message"
            /\ FoundAbsent(r, IF r = "github" THEN "github" ELSE "publish_npm") =>
                  PublishInvoked(r, IF r = "github" THEN "github" ELSE "publish_npm")]_vars

\* a finished run with --skip-existing in which the version of a component was
\* found in GitHub and skipped there, and then published to NPM
C31_Witness ==
    /\ pc = "exit" /\ exit_code = 0 /\ opts.skip_existing
    /\ \E c \in Comps : /\ <<c, "github">> \in existing \cap skipped
                         /\ <<c, "npm">> \in published

\* ============================================================ scope.json
\* the Selecting step of publish ends in this step with a validation error
SelectingFails == pc = "select" /\ fail.kind = "none" /\ fail'.kind = "message"

\* C32 (as claimed): a Selecting step of publish that ends with a validation
\* error leaves the content of scope.json as it was.
C32_SelectingFailureKeepsScope ==
    [][SelectingFails => scope_json' = scope_json]_vars

\* C33 (as claimed): a step of a publish run writes scope.json only if the
\* values it stores afterwards differ from the values stored before (the user
\* was prompted and gave an answer that is not equivalent to the stored one).
C33_ScopeWrittenOnlyForNewAnswer ==
    [][(cmd = "publish" /\ scope_writes' # scope_writes) =>
            load_cli_config(scope_json') # load_cli_config(scope_json)]_vars

\* C40: the values that load_cli_config returns for scope.json are those of
\* the run's config, in which only the set key was changed: after an update
\* the set key has its new value and the other key its stored one; a step
\* that writes scope.json keeps the top-level key `scope`, the further key of
\* `repomaintain`, and the stored value of publish_mode or of
\* publish_tag_name.
C40_UpdateMergesSetKeysOnly ==
    /\ [](load_cli_config(scope_json) = config)
    /\ [][scope_writes' # scope_writes =>
            /\ scope_json'.scope = scope_json.scope
            /\ scope_json'.repomaintain.extra = scope_json.repomaintain.extra
            /\ \/ /\ load_cli_config(scope_json').publish_tag_name
                        = load_cli_config(scope_json).publish_tag_name
                  /\ scope_json.has_repomaintain =>
                        scope_json'.repomaintain.publish_tag_name
                            = scope_json.repomaintain.publish_tag_name
               \/ /\ load_cli_config(scope_json').publish_mode
                        = load_cli_config(scope_json).publish_mode
                  /\ scope_json.has_repomaintain =>
                        scope_json'.repomaintain.publish_mode
                            = scope_json.repomaintain.publish_mode]_vars

\* a scope.json with a further key in `repomaintain` has been written twice:
\* it now stores the answered publish mode and the answered tag name
C40_Witness ==
    /\ scope_writes = 2
    /\ scope_json.scope = "@shapediver" /\ scope_json.repomaintain.extra
    /\ load_cli_config(scope_json) = [publish_mode |-> "all",
                                      publish_tag_name |-> << <<"v", "_", "1">> >>]

\* the comparison that a comparator stands for
Compared(op, v, a) ==
    IF op = GreaterEq THEN ~Below(v, a)
    ELSE IF op = LessEq THEN ~Below(a, v)
    ELSE IF op = Greater THEN Below(a, v)
    ELSE IF op = Less THEN Below(v, a)
    ELSE v = a

\* an anchor of one or two components, right-padded with 0
Padded(a) == <<a[1], IF Len(a) >= 2 THEN a[2] ELSE 0, IF Len(a) >= 3 THEN a[3] ELSE 0>>

\* C38: for a single term made of `>=`, `<=`, `>`, `<`, `=` or nothing and an
\* anchor of one, two or three components, the result of the check is the
\* corresponding comparison of the version against the anchor right-padded
\* with 0.
C38_ComparatorAgainstPaddedAnchor ==
    Checked =>
        /\ \A op \in Comparators, a \in Anchors :
              peer_version_requirement = Req(op, a) =>
                  satisfied[1] = Compared(op, matching_dep, a)
        /\ \A op \in Comparators, a \in PartialAnchors :
              peer_version_requirement = op \o FormatPartial(a) =>
                  satisfied[1] = Compared(op, matching_dep, Padded(a))

\* 1.0.0 has been checked against `>=1.1` and found not to satisfy it
C38_Witness ==
    /\ Checked
    /\ matching_dep = <<1, 0, 0>>
    /\ peer_version_requirement = <<">", "=", "1", ".", "1">>
    /\ satisfied = <<FALSE>>

\* C39 (as claimed): a component's own .npmrc, which exists before the run,
\* is present with its content when the run ends. No step of a run creates
\* such a file, so this is: no step removes it or writes over it.
C39_OwnNpmrcKept ==
    [][\A c \in 1..NLerna : npmrc[c] = "own" => npmrc'[c] = "own"]_vars

\* ------------------------------------------ sd-global: the pinned-dependency page
\* the name of this repository (utils.py, line 435)
RepoName == <<"m">>

\* lines 445, 392: [i.strip() for i in cell.split(',') if not i.isspace() and i != ""]
RECURSIVE StripEach(_)
StripEach(items) ==
    IF items = <<>> THEN <<>> ELSE <<Strip(Head(items))>> \o StripEach(Tail(items))

ParseRepositories(cell) ==
    StripEach(SelectSeq(Split(cell, <<",">>), LAMBDA item : Strip(item) # <<>>))

\* ", ".join(repositories)
RECURSIVE JoinRepositories(_)
JoinRepositories(repositories) ==
    IF repositories = <<>> THEN <<>>
    ELSE IF Len(repositories) = 1 THEN repositories[1]
    ELSE repositories[1] \o <<",", " ">> \o JoinRepositories(Tail(repositories))

\* list.remove(x): the first occurrence of x is removed
RemoveFirst(list, x) ==
    LET k == CHOOSE h \in DOMAIN list : list[h] = x /\ \A g \in 1..(h - 1) : list[g] # x
    IN SubSeq(list, 1, k - 1) \o SubSeq(list, k + 1, Len(list))

\* lines 448-453: what is done with the row of the package `name`
RowAdds(name, repositories, in_use) == name \in in_use /\ RepoName \notin Range(repositories)
RowRemoves(name, repositories, in_use) == name \notin in_use /\ RepoName \in Range(repositories)

UpdatedRow(row, in_use) ==
    LET repositories == ParseRepositories(row.repositories)
    IN [row EXCEPT !.repositories =
            JoinRepositories(IF RowAdds(row.name, repositories, in_use)
                             THEN Append(repositories, RepoName)
                             ELSE IF RowRemoves(row.name, repositories, in_use)
                             THEN RemoveFirst(repositories, RepoName)
                             ELSE repositories)]

changes_applied(rows, in_use) ==
    \E k \in DOMAIN rows :
        \/ RowAdds(rows[k].name, ParseRepositories(rows[k].repositories), in_use)
        \/ RowRemoves(rows[k].name, ParseRepositories(rows[k].repositories), in_use)

\* update_globally_pinned_dependencies: the rows are rewritten in the parsed
\* page, which is uploaded only when changes_applied is set
update_globally_pinned_dependencies ==
    /\ cmd = "sd-global" /\ pc = "start"
    /\ IF changes_applied(page, pinned_deps_in_use)
       THEN /\ page' = [k \in DOMAIN page |-> UpdatedRow(page[k], pinned_deps_in_use)]
            /\ uploads' = uploads + 1
       ELSE UNCHANGED <<page, uploads>>
    /\ pc' = "return_true"
    /\ UNCHANGED <<peers, cb_calls, cmd, opts, dirty, i, hctx, cb, fail, app_on_error, exit_code,
                   files, hist, vcs, pub, pinned_deps_in_use, runs>>

MaxRuns == 2

\* the command is started again on the same repository
sd_global_again ==
    /\ cmd = "sd-global" /\ pc = "exit"
    /\ runs < MaxRuns
    /\ runs' = runs + 1
    /\ pc' = "start"
    /\ exit_code' = -1
    /\ UNCHANGED <<peers, cb_calls, cmd, opts, dirty, i, hctx, cb, fail, app_on_error,
                   files, hist, vcs, pub, page, pinned_deps_in_use, uploads>>

\* the cell `repositories` of a row, as people and this tool have written it
PinnedCells ==
    {<<>>, <<"m">>, <<"a">>, <<"a", ",", " ", "m">>, <<"m", ",", " ", "a">>,
     <<"a", ",", "m">>, <<"a", ",", " ", "b">>, <<"m", ",", " ", "m">>}

InitPinned ==
    /\ cmd = "sd-global"
    /\ NoPeerCheck
    /\ opts = NoFlags
    /\ dirty = FALSE
    /\ config = [publish_mode |-> "none", publish_tag_name |-> <<>>]
    /\ scope_json = StoredScope(config)
    /\ pkg = Manifests(<<1, 0, 0>>, <<1, 0, 0>>, <<>>, <<>>, {})
    /\ lock = [k \in Comps |-> "original"]
    /\ npmrc = [k \in Comps |-> "none"]
    /\ \E c0, c1 \in PinnedCells :
          page = <<[name |-> 0, repositories |-> c0], [name |-> 1, repositories |-> c1]>>
    /\ pinned_deps_in_use \in SUBSET {0, 1}
    /\ uploads = 0
    /\ runs = 0
    /\ InitRun

NextPinned ==
    \/ update_globally_pinned_dependencies
    \/ cmd_wrapper_ok
    \/ sd_global_again

SpecPinned == InitPinned /\ [][NextPinned]_vars

\* ============================================================ check-peers scan
Collected == cmd = "check-peers" /\ pc # "start"
Scanned == cmd = "check-peers" /\ pc \in {"report", "return_true", "exit"} /\ dependencies # <<>>

\* the peer map that the registry returns for the collected dependency d
Returned(d) == _fetch_peer_dependencies(npm_view[<<dependencies[d].name, dependencies[d].version>>])

\* the records of the triple (collected dependency d, peer name p, collected
\* dependency m of that name)
RecordsOf(d, p, m) ==
    {j \in DOMAIN mismatches :
        /\ mismatches[j].dependency_name = dependencies[d].name
        /\ mismatches[j].dependency_version = dependencies[d].version
        /\ mismatches[j].peer_name = p
        /\ mismatches[j].required_peer_version = Returned(d)[p]
        /\ mismatches[j].actual_peer_version = dependencies[m].version}

Triples ==
    {t \in (DOMAIN dependencies) \X {0, 1} \X (DOMAIN dependencies) :
        t[2] \in DOMAIN Returned(t[1]) /\ dependencies[t[3]].name = t[2]}

\* one record for every triple whose version does not satisfy the requirement,
\* none for the triples of the dependency d that do, and no further record
RecordsExact(d) ==
    /\ \A t \in Triples :
          t[1] = d =>
              Cardinality(RecordsOf(t[1], t[2], t[3])) =
                  IF _version_satisfies_requirement(dependencies[t[3]].version,
                                                    Returned(t[1])[t[2]])
                  THEN 0 ELSE 1
    /\ \A j \in DOMAIN mismatches :
          (/\ mismatches[j].dependency_name = dependencies[d].name
           /\ mismatches[j].dependency_version = dependencies[d].version)
              => \E t \in Triples : t[1] = d /\ j \in RecordsOf(t[1], t[2], t[3])

\* C34: after the scan there is exactly one record for every triple
\* (collected dependency, peer name with the requirement returned for it,
\* collected pair of that name) whose version does not satisfy the requirement,
\* no record for any other triple, and every record carries the component list
\* of its collected pair (peer name, actual version).
C34_OneRecordPerFailingTriple ==
    Scanned =>
        /\ \A d \in DOMAIN dependencies : RecordsExact(d)
        /\ \A j \in DOMAIN mismatches :
              \E m \in DOMAIN dependencies :
                  /\ dependencies[m].name = mismatches[j].peer_name
                  /\ dependencies[m].version = mismatches[j].actual_peer_version
                  /\ mismatches[j].affected_components = dependencies[m].components

\* a collected dependency requires a peer of which two versions are collected,
\* neither satisfying the requirement: the scan has made a record for each
C34_Witness ==
    /\ Scanned
    /\ \E j, h \in DOMAIN mismatches :
          /\ mismatches[j].dependency_name = mismatches[h].dependency_name
          /\ mismatches[j].dependency_version = mismatches[h].dependency_version
          /\ mismatches[j].peer_name = mismatches[h].peer_name
          /\ mismatches[j].actual_peer_version # mismatches[h].actual_peer_version

\* C35 (as claimed): after the collection, for every component and every
\* entry of its runtime, dev and peer maps whose range resolves to an anchor,
\* the pair (name, anchor) is collected and its component list holds the
\* component exactly once.
C35_EveryAnchoredEntryCollected ==
    Collected =>
        \A c \in Comps : \A map \in ScanMaps : \A n \in DOMAIN pkg[c][map] :
            LET anchor == _extract_version_from_string(pkg[c][map][n])
            IN anchor # <<>> =>
                 \E k \in DOMAIN dependencies :
                    /\ dependencies[k].name = n /\ dependencies[k].version = anchor[1]
                    /\ Cardinality({h \in DOMAIN dependencies[k].components :
                                        dependencies[k].components[h] = c}) = 1

\* the query fails, prints nothing, or prints text without any `key: value` line
NoPeerMap(view) ==
    \/ view.status = "error"
    \/ view.format = "blank"
    \/ view.format = "text" /\ \A k \in DOMAIN view.lines : ~view.lines[k].colon

Listed(cell) == RepoName \in Range(ParseRepositories(cell))

\* C37 (as claimed): a run uploads the page exactly when the membership of
\* this repository changes in at least one row; after the run the repository
\* is listed in a row exactly when the row's package is in use; a run after
\* the first one uploads nothing.
C37_UploadIffMembershipChanges ==
    [][(cmd = "sd-global" /\ pc = "start" /\ pc' = "return_true") =>
          /\ (uploads' # uploads) <=>
                \E k \in DOMAIN page :
                    Listed(page'[k].repositories) # Listed(page[k].repositories)
          /\ \A k \in DOMAIN page :
                Listed(page'[k].repositories) <=> page[k].name \in pinned_deps_in_use
          /\ runs >= 1 => uploads' = uploads]_vars
====
